---- MODULE Spec2Model ----
(***************************************************************************)
(* TinyHero3D: the render-state bind machine (BindMachine), the uniform    *)
(* model (UniformMap, Material) and the part of the WebGL context state    *)
(* that the bind machine drives, as a state machine.                       *)
(*                                                                         *)
(* GPU state follows the WebGL 1 rules: uniform values are per-program     *)
(* state, initially zero; gl.uniform* writes to the program that is in     *)
(* use and generates a GL error (no write) when the location belongs to    *)
(* another program or the array length does not fit the uniform's type.    *)
(* The context is the plain one (initGraphics' isDebug = false default).   *)
(***************************************************************************)
EXTENDS Integers, Sequences, FiniteSets, TLC

\* ---------------------------------------------------------------- bounds
\* Number of mutating calls (Material.setUniform / setUniformSource /
\* UniformMap.set) explored in one behaviour.
MaxMutations == 2
\* Number of vertex-array objects createVao may create.
MaxVaos == 2
\* Number of buffers VertexBuffer.createBuffer may create.
MaxBuffers == 1
\* Number of BtocFile.setBinary / setText calls.
MaxSets == 3
\* Number of buffers the Geometry factories may create.
MaxGeometryBuffers == 4
\* initLambertian3D(pointLightsMax, directionalLightsMax): the arguments of
\* the calls, and the number of calls.
PointLightsMax == 2
DirectionalLightsMax == 1
MaxInitCalls == 2
\* Number of textures created with Texture.from.
MaxTextures == 2
\* Number of calls made on the nodes of a tree.
MaxNodeCalls == 4
\* Number of nodes of a scene tree, the root included.
MaxNodes == 4
\* Number of calls made on one BtocMeshWriter before it is finished.
MaxWriterCalls == 3
\* Texture units of the modelled context.
NumTextureUnits == 2

\* ------------------------------------------------------------ GL constants
UNSIGNED_SHORT == 5123
INT == 5124
FLOAT == 5126
FLOAT_VEC2 == 35664
FLOAT_VEC3 == 35665
FLOAT_MAT4 == 35676
SAMPLER_2D == 35678

\* enum UniformSource { MATERIAL, ENVIRONMENT, INSTANCE }
FromMaterial == 0
FromEnvironment == 1
FromInstance == 2

NULL == "null"
\* Map.get(...) of an absent key
UNDEFINED == -1
\* getElemTypeAndCount's "Type not supported" outcome
UNSUPPORTED == 0

\* ------------------------------------------------------ modelled universe
Shaders == {"S1", "S2"}
Materials == {"M1", "M2", "M3"}
EnvMaps == {"E1", "E2"}
InstMaps == {"I1"}
Textures == {"T1", "T2"}
UniformNames == {"color_texture", "color", "mask_texture"}

\* lambertianFlatColorShader and lambertianTexturedShader
LambertianShaders == {"LF", "LT"}

\* The uniforms createLambertianSurfaceShader declares, a struct array as one
\* uniform per element and member: the two matrices of the vertex shader,
\* the lights, and the uniform of the surface shader.
LambertianUniforms(program) ==
  << [name |-> "local_to_global", type |-> FLOAT_MAT4, size |-> 1],
     [name |-> "local_to_clip", type |-> FLOAT_MAT4, size |-> 1] >>
  \o [k \in 1..(2 * DirectionalLightsMax) |->
        [name |-> "directionalLights[" \o ToString((k - 1) \div 2) \o "]."
                    \o << "direction", "color" >>[((k - 1) % 2) + 1],
         type |-> FLOAT_VEC3, size |-> 1]]
  \o [k \in 1..(3 * PointLightsMax) |->
        [name |-> "pointLights[" \o ToString((k - 1) \div 3) \o "]."
                    \o << "position", "color", "radius" >>[((k - 1) % 3) + 1],
         type |-> IF (k - 1) % 3 = 2 THEN FLOAT ELSE FLOAT_VEC3, size |-> 1]]
  \o (IF program = "LT"
      THEN << [name |-> "color_texture", type |-> SAMPLER_2D, size |-> 1] >>
      ELSE << [name |-> "color", type |-> FLOAT_VEC3, size |-> 1] >>)

\* gl.getActiveUniform(program, i): the active uniforms of each linked
\* program, in introspection order.
ActiveUniforms(program) ==
  IF program = "S1"
  THEN << [name |-> "color_texture", type |-> SAMPLER_2D, size |-> 1],
          [name |-> "color",         type |-> FLOAT_VEC2, size |-> 1],
          [name |-> "mask_texture",  type |-> SAMPLER_2D, size |-> 1] >>
  ELSE IF program \in LambertianShaders THEN LambertianUniforms(program)
  ELSE << [name |-> "color",         type |-> FLOAT_VEC2, size |-> 1] >>

\* --------------------------------------------------------------- GlType
getElementCountOfGlType(type) ==
  CASE type \in {FLOAT, INT} -> 1
    [] type = FLOAT_VEC2 -> 2
    [] type = FLOAT_VEC3 -> 3
    [] type = FLOAT_MAT4 -> 16
    [] OTHER -> 1

isSupportedFloatType(type) == type \in {FLOAT, FLOAT_VEC2, FLOAT_VEC3, FLOAT_MAT4}

isSupportedIntType(type) == type \in {INT}

getElemTypeAndCount(type, size) ==
  LET elementCount == getElementCountOfGlType(type)
      isMiscSupportedType == type = UNSIGNED_SHORT \/ type = SAMPLER_2D
      elemType == IF isSupportedFloatType(type) THEN FLOAT
                  ELSE IF isSupportedIntType(type) THEN INT
                  ELSE IF isMiscSupportedType THEN type
                  ELSE UNSUPPORTED
  IN << elemType, size * elementCount >>

GlType(type, size) ==
  LET ec == getElemTypeAndCount(type, size)
  IN [type |-> type, size |-> size, elemType |-> ec[1], elemCount |-> ec[2]]

\* ------------------------------------------------------------ uniform values
\* UniformValue = number[] | Texture
NumberArray(elems) == [kind |-> "array", elems |-> elems, texture |-> NULL]

TextureValue(t) == [kind |-> "Texture", elems |-> << >>, texture |-> t]

\* The `null` passed for a sampler whose resolved value is not a Texture.
NullTexture == [kind |-> "null", elems |-> << >>, texture |-> NULL]

\* IntoUniform inputs: a bare number, a number[], a Matrix or a Texture.
IntoNumber(n) == [kind |-> "number", elems |-> << n >>, texture |-> NULL]

Matrix4_identity ==
  [kind |-> "Matrix", texture |-> NULL,
   elems |-> << 1, 0, 0, 0,  0, 1, 0, 0,  0, 0, 1, 0,  0, 0, 0, 1 >>]

simpleUniformToArray(value) ==
  IF value.kind = "array" THEN NumberArray(value.elems)
  ELSE IF value.kind = "Matrix" THEN NumberArray(value.elems)
  ELSE NumberArray(<< value.elems[1] >>)

UniformValue(value) ==
  IF value.kind = "Texture" THEN value ELSE simpleUniformToArray(value)

ZeroValue(elemCount) == NumberArray([i \in 1..elemCount |-> 0])

\* console.assert(cond, msg): logs msg when cond is false and carries on;
\* it never throws.  (This is the normal build; rollup's minified build
\* strips the assertions with unassert, so there nothing is logged either.)
ConsoleAssert(cond, msg) ==
  IF ~cond THEN << msg >> ELSE << >>

validateUniformWithValue(uniform) ==
  LET type == uniform.type
  IN IF uniform.value.kind = "Texture"
     THEN ConsoleAssert(type.elemType = SAMPLER_2D, "assert: texture value for a non-sampler uniform")
          \o ConsoleAssert(type.elemCount = 1, "assert: sampler elemCount")
     ELSE ConsoleAssert(type.elemType = FLOAT \/ type.elemType = INT, "assert: numeric value for a non-numeric uniform")
          \o ConsoleAssert(Len(uniform.value.elems) = type.elemCount, "assert: wrong number of elements")

\* UniformWithValue(name, type, value, size): built, validated, returned.
UniformWithValue(name, type, value, size) ==
  [name |-> name, type |-> GlType(type, size), value |-> UniformValue(value)]

\* ------------------------------------------------------------- JS Map
\* Map<string, X> kept as its entries in insertion order.
MapIndex(entries, name) ==
  IF \E i \in 1..Len(entries) : entries[i].name = name
  THEN CHOOSE i \in 1..Len(entries) : entries[i].name = name
  ELSE 0

MapHas(entries, name) == MapIndex(entries, name) # 0

\* A Map.set that deletes the key first, so that a rewritten key moves to the
\* end of the iteration order.
MapSetMovesToEnd(entries, entry) ==
  Append(SelectSeq(entries, LAMBDA e : e.name # entry.name), entry)

\* Map.set: an existing key keeps its position, a new key is appended.
MapSet(entries, entry) ==
  IF MapHas(entries, entry.name)
  THEN [entries EXCEPT ![MapIndex(entries, entry.name)] = entry]
  ELSE Append(entries, entry)

\* Array.prototype.splice(start, 0, item): a negative start counts from the
\* end of the array.
spliceInsert(array, start, item) ==
  LET len == Len(array)
      actualStart == IF start < 0
                     THEN (IF len + start < 0 THEN 0 ELSE len + start)
                     ELSE (IF start > len THEN len ELSE start)
  IN SubSeq(array, 1, actualStart) \o << item >> \o SubSeq(array, actualStart + 1, len)

\* ------------------------------------------------------------------ state
VARIABLES
  defaultUniformSources,  \* the global name -> UniformSource registry
  materials,              \* Material objects
  maps,                   \* EnvironmentUniforms / InstanceUniforms objects
  bm,                     \* the BindMachine singleton
  gpu,                    \* WebGL context state
  calls,                  \* GL calls issued by the last operation, in order
  diag,                   \* console.assert / console.warn output of the last operation
  thrown,                 \* exception that ended the last operation, or "none"
  lastOp,                 \* the last operation and the branch it took
  mutations,              \* number of mutating calls made so far
  btoc,                   \* a BtocFile under construction, its encoding and a parse
  reader,                 \* a BtocMeshReader, its caches and its pending async calls
  graph,                  \* Geometry objects and the scene tree that is drawn
  codec,                  \* a BtocMeshWriter, the file it finished and what is read back
  tree                    \* Node objects, their links, transforms and the lights hooked

vars == << defaultUniformSources, materials, maps, bm, gpu,
           calls, diag, thrown, lastOp, mutations, btoc, reader, graph, codec, tree >>

\* State the renderer's operations never touch.
outside == << btoc, reader, graph, codec, tree >>

\* State the file-format operations never touch.
renderer == << defaultUniformSources, materials, maps, bm, gpu, mutations >>

\* ------------------------------------------------------------- Material
\* The shader each material is constructed with: M1 and M2 share a program.
ShaderOf(m) == IF m = "M3" THEN "S2" ELSE "S1"

\* Material._getUniformInfo(i)
getUniformInfo(program, i) ==
  LET info == ActiveUniforms(program)[i]
  IN [name |-> info.name, type |-> GlType(info.type, info.size),
      location |-> [program |-> program, name |-> info.name]]

\* A _createUniformMap whose initial value is [0] whatever the type.
createUniformMapSingleZero(program, registry) ==
  [i \in 1..Len(ActiveUniforms(program)) |->
     LET u == getUniformInfo(program, i)
     IN [name |-> u.name, type |-> u.type,
         value |-> ZeroValue(1),
         location |-> u.location,
         valueSource |-> IF registry[u.name] # UNDEFINED THEN registry[u.name]
                         ELSE FromMaterial,
         hasBeenWritten |-> FALSE]]

\* Material._createUniformMap
createUniformMap(program, registry) ==
  [i \in 1..Len(ActiveUniforms(program)) |->
     LET u == getUniformInfo(program, i)
     IN [name |-> u.name, type |-> u.type,
         value |-> ZeroValue(u.type.elemCount),
         location |-> u.location,
         valueSource |-> IF registry[u.name] # UNDEFINED THEN registry[u.name]
                         ELSE FromMaterial,
         hasBeenWritten |-> FALSE]]

NewMaterial(shader, registry) ==
  [shader |-> shader, uniforms |-> createUniformMap(shader, registry),
   hasChangedSinceLastBound |-> FALSE]

NewUniformMap == [uniforms |-> << >>, hasChangedSinceLastBound |-> FALSE]

NewBindMachine ==
  [environment |-> NULL, instanceUniforms |-> NULL, shader |-> NULL,
   material |-> NULL, geometry |-> NULL, vao |-> NULL,
   wereInstanceUniformsChanged |-> FALSE]

\* ------------------------------------------------------------ GL context
Call(fn, prog, name, obj, num, elems) ==
  [fn |-> fn, prog |-> prog, name |-> name, obj |-> obj, num |-> num,
   elems |-> elems]

\* Type of an active uniform as the program knows it.
ActiveUniformElemCount(program, name) ==
  LET i == MapIndex(ActiveUniforms(program), name)
  IN GlType(ActiveUniforms(program)[i].type, ActiveUniforms(program)[i].size).elemCount

\* Values the linked program starts with: zero for every active uniform.
LinkedUniforms(program) ==
  [n \in UniformNames |->
     IF MapHas(ActiveUniforms(program), n)
     THEN [i \in 1..ActiveUniformElemCount(program, n) |-> 0]
     ELSE << >>]

\* Handles createVertexArrayOES hands out, in order.
VaoHandle(n) == << "V1", "V2", "V3", "V4" >>[n]

VaoHandles == { VaoHandle(n) : n \in 1..MaxVaos }

\* Vertex-array state: the element-array binding and, per attribute
\* location, whether the array is enabled and the buffer its pointer reads.
\* The entry for NULL is the context's default vertex-array state.
NewVertexArray ==
  [elementArrayBuffer |-> NULL,
   attribs |-> [l \in 0..1 |-> [enabled |-> FALSE, buffer |-> NULL]]]

NewGpu ==
  [program |-> NULL,
   uniforms |-> [s \in Shaders |-> LinkedUniforms(s)],
   activeTexture |-> 0,
   textureUnits |-> [k \in 0..(NumTextureUnits - 1) |-> NULL],
   vao |-> NULL,
   vaoCount |-> 0,
   bufferCount |-> 0,
   textureCount |-> 0,
   arrayBuffer |-> NULL,
   vaos |-> [v \in VaoHandles \cup {NULL} |-> NewVertexArray]]

\* An execution context threaded through the GL calls of one operation.
Ctx(g, d) == [gpu |-> g, calls |-> << >>, diag |-> d, thrown |-> "none"]

glUseProgram(c, program) ==
  [c EXCEPT !.gpu.program = program,
            !.calls = Append(@, Call("useProgram", program, "", NULL, 0, << >>))]

\* gl.uniform{1,2,3,4}{f,i}v / uniformMatrix*fv(location, value)
glUniformv(c, location, value) ==
  IF value.kind = "Texture"
  THEN [c EXCEPT !.thrown = "TypeError"]
  ELSE LET ok == /\ c.gpu.program = location.program
                 /\ Len(value.elems) = ActiveUniformElemCount(location.program, location.name)
       IN [c EXCEPT
             !.gpu.uniforms[location.program][location.name] =
                 IF ok THEN value.elems ELSE @,
             !.calls = Append(@, Call("uniformv", location.program, location.name, NULL, 0, value.elems))]

glUniform1i(c, location, n) ==
  [c EXCEPT
     !.gpu.uniforms[location.program][location.name] =
         IF c.gpu.program = location.program THEN << n >> ELSE @,
     !.calls = Append(@, Call("uniform1i", location.program, location.name, NULL, n, << >>))]

glActiveTexture(c, unit) ==
  [c EXCEPT
     !.gpu.activeTexture = IF unit < NumTextureUnits THEN unit ELSE @,
     !.calls = Append(@, Call("activeTexture", NULL, "", NULL, unit, << >>))]

glBindTexture(c, texture) ==
  [c EXCEPT
     !.gpu.textureUnits[c.gpu.activeTexture] = texture,
     !.calls = Append(@, Call("bindTexture", NULL, "", texture, 0, << >>))]

bindVertexArrayOES(c, vao) ==
  [c EXCEPT !.gpu.vao = vao,
            !.calls = Append(@, Call("bindVertexArrayOES", NULL, "", vao, 0, << >>))]

\* glVAO.createVertexArrayOES(): the context with one more object; the new
\* handle is VaoHandle(c.gpu.vaoCount) of the result.
createVertexArrayOES(c) ==
  [c EXCEPT !.gpu.vaoCount = @ + 1,
            !.calls = Append(@, Call("createVertexArrayOES", NULL, "",
                                     VaoHandle(c.gpu.vaoCount + 1), 0, << >>))]

\* Handles gl.createBuffer hands out, in order.
BufferHandle(n) == << "B1", "B2", "B3", "B4", "B5", "B6" >>[n]

\* gl.createBuffer(): the context with one more buffer; the new handle is
\* BufferHandle(c.gpu.bufferCount) of the result.
glCreateBuffer(c) ==
  [c EXCEPT !.gpu.bufferCount = @ + 1,
            !.calls = Append(@, Call("createBuffer", NULL, "",
                                     BufferHandle(c.gpu.bufferCount + 1), 0, << >>))]

\* gl.bufferData(target, data, usage) fills the buffer bound to target; the
\* bindings stay as they are.
glBufferData(c, target) ==
  [c EXCEPT !.calls = Append(@, Call("bufferData", NULL, target, NULL, 0, << >>))]

\* gl.bindBuffer(target, buffer): the element-array binding belongs to the
\* bound vertex-array object, the array binding to the context.
glBindBuffer(c, target, buffer) ==
  [c EXCEPT
     !.gpu.vaos[c.gpu.vao].elementArrayBuffer =
         IF target = "ELEMENT_ARRAY_BUFFER" THEN buffer ELSE @,
     !.gpu.arrayBuffer = IF target = "ARRAY_BUFFER" THEN buffer ELSE @,
     !.calls = Append(@, Call("bindBuffer", NULL, target, buffer, 0, << >>))]

glEnableVertexAttribArray(c, location) ==
  [c EXCEPT
     !.gpu.vaos[c.gpu.vao].attribs[location].enabled = TRUE,
     !.calls = Append(@, Call("enableVertexAttribArray", NULL, "", NULL, location, << >>))]

\* gl.vertexAttribPointer: the attribute of the bound vertex-array object
\* reads from the buffer bound to ARRAY_BUFFER.
glVertexAttribPointer(c, location, elemCount, elemType) ==
  [c EXCEPT
     !.gpu.vaos[c.gpu.vao].attribs[location].buffer = c.gpu.arrayBuffer,
     !.calls = Append(@, Call("vertexAttribPointer", NULL, "", NULL, location,
                              << elemCount, elemType >>))]

\* ------------------------------------------------------------ UniformMap
\* UniformMap.tryGet(uniform): found is FALSE for `undefined`.
tryGet(map, uniform) ==
  LET i == MapIndex(map.uniforms, uniform.name)
  IN IF i = 0
     THEN [found |-> FALSE, value |-> uniform.value, diag |-> << >>]
     ELSE [found |-> TRUE, value |-> map.uniforms[i].value,
           diag |-> ConsoleAssert(uniform.type.elemType = map.uniforms[i].type.elemType,
                                  "assert: tryGet elemType differs")
                    \o ConsoleAssert(uniform.type.elemCount = map.uniforms[i].type.elemCount,
                                     "assert: tryGet elemCount differs")]

\* ----------------------------------------------------------- BindMachine
\* BindMachine.getBestAvailableUniformValue; environment / instanceUniforms
\* are map ids or NULL.  `a ?? b` takes b exactly when a is undefined.
getBestAvailableUniformValue(allMaps, uniform, environment, instanceUniforms) ==
  CASE uniform.valueSource = FromEnvironment ->
         IF environment = NULL
         THEN [value |-> uniform.value, diag |-> << >>, thrown |-> "TypeError"]
         ELSE LET r == tryGet(allMaps[environment], uniform)
              IN [value |-> IF r.found THEN r.value ELSE uniform.value,
                  diag |-> r.diag, thrown |-> "none"]
    [] uniform.valueSource = FromInstance ->
         LET a == ConsoleAssert(uniform.type.type # SAMPLER_2D,
                                "assert: Textures are not supported as instance uniform.")
         IN IF instanceUniforms = NULL
            THEN [value |-> uniform.value, diag |-> a, thrown |-> "none"]
            ELSE LET r == tryGet(allMaps[instanceUniforms], uniform)
                 IN [value |-> IF r.found THEN r.value ELSE uniform.value,
                     diag |-> a \o r.diag, thrown |-> "none"]
    [] OTHER ->
         [value |-> uniform.value,
          diag |-> IF ~uniform.hasBeenWritten
                   THEN << "warn: uniform has not yet been given a value" >>
                   ELSE << >>,
          thrown |-> "none"]

\* BindMachine._setShader: returns the new cached shader and the context.
_setShader(cachedShader, c, shader) ==
  IF cachedShader = shader THEN c ELSE glUseProgram(c, shader)

\* BindMachine._bindSimpleUniform: the switch over uniform.type.type.
_bindSimpleUniform(c, uniform, value) ==
  IF uniform.type.type \in {FLOAT, FLOAT_VEC2, INT}
  THEN glUniformv(c, uniform.location, value)
  ELSE [c EXCEPT !.thrown = "Error: Uniform type not supported"]

\* BindMachine._bindTextureInform(uniform, value: Texture|null, textureUnit)
_bindTextureInform(c, uniform, value, textureUnit) ==
  LET texture == IF value.kind = "null" THEN NULL ELSE value.texture
  IN glUniform1i(glBindTexture(glActiveTexture(c, textureUnit), texture),
                 uniform.location, textureUnit)

\* The loop of the full update (core.ts 907-917) from uniform i on.
RECURSIVE fullUpdateLoop(_, _, _, _, _, _)
fullUpdateLoop(allMaps, uniforms, environment, instanceUniforms, i, st) ==
  IF i > Len(uniforms) \/ st.c.thrown # "none" THEN st
  ELSE
    LET uniform == uniforms[i]
        best == getBestAvailableUniformValue(allMaps, uniform, environment, instanceUniforms)
        c1 == [st.c EXCEPT !.diag = @ \o best.diag, !.thrown = best.thrown]
    IN IF best.thrown # "none" THEN [st EXCEPT !.c = c1]
       ELSE IF uniform.type.type = SAMPLER_2D
       THEN LET tex == IF best.value.kind = "Texture" THEN best.value ELSE NullTexture
            IN fullUpdateLoop(allMaps, uniforms, environment, instanceUniforms, i + 1,
                 [c |-> _bindTextureInform(c1, uniform, tex, st.textureUnit),
                  textureUnit |-> st.textureUnit + 1])
       ELSE fullUpdateLoop(allMaps, uniforms, environment, instanceUniforms, i + 1,
                 [c |-> _bindSimpleUniform(c1, uniform, best.value),
                  textureUnit |-> st.textureUnit])

\* The loop of the partial update (core.ts 891-897) from uniform i on.
RECURSIVE partialUpdateLoop(_, _, _, _)
partialUpdateLoop(instanceMap, uniforms, i, c) ==
  IF i > Len(uniforms) \/ c.thrown # "none" THEN c
  ELSE
    LET uniform == uniforms[i]
    IN IF uniform.valueSource # FromInstance
       THEN partialUpdateLoop(instanceMap, uniforms, i + 1, c)
       ELSE LET a == ConsoleAssert(uniform.type.type # SAMPLER_2D,
                                   "assert: sampler in partial update")
                r == tryGet(instanceMap, uniform)
                value == IF r.found THEN r.value ELSE uniform.value
                c1 == [c EXCEPT !.diag = @ \o a \o r.diag]
            IN partialUpdateLoop(instanceMap, uniforms, i + 1,
                                 _bindSimpleUniform(c1, uniform, value))

\* Shader.vertexAttributes (getVertexAttributes) in introspection order.
vertexAttributes(program) ==
  IF program = "S1"
  THEN << [name |-> "position", location |-> 0, type |-> GlType(FLOAT_VEC2, 1)],
          [name |-> "uv",       location |-> 1, type |-> GlType(FLOAT_VEC2, 1)] >>
  ELSE << [name |-> "position", location |-> 0, type |-> GlType(FLOAT_VEC2, 1)] >>

Geometries == {"G1", "G2"}

\* The Geometry objects: G1 as built by Geometry.from_indexed with position
\* and uv buffers, G2 as built by Geometry.from with a scalar position buffer.
GeometryOf(g) ==
  IF g = "G1"
  THEN [vertexCount |-> 4, indexCount |-> 6, indexBuffer |-> "IB1",
        vertexBuffers |->
          << [name |-> "position", buffer |-> "VB1", type |-> GlType(FLOAT_VEC2, 1),
              bufferType |-> "ARRAY_BUFFER"],
             [name |-> "uv", buffer |-> "VB2", type |-> GlType(FLOAT_VEC2, 1),
              bufferType |-> "ARRAY_BUFFER"] >>]
  ELSE [vertexCount |-> 3, indexCount |-> UNDEFINED, indexBuffer |-> NULL,
        vertexBuffers |->
          << [name |-> "position", buffer |-> "VB3", type |-> GlType(FLOAT, 1),
              bufferType |-> "ARRAY_BUFFER"] >>]

\* The loop of _setGeometry over the shader's vertex attributes from i on.
RECURSIVE setGeometryLoop(_, _, _, _)
setGeometryLoop(attribs, vertexBuffers, i, c) ==
  IF i > Len(attribs) THEN c
  ELSE
    LET attrib == attribs[i]
        j == MapIndex(vertexBuffers, attrib.name)
    IN IF j = 0
       THEN setGeometryLoop(attribs, vertexBuffers, i + 1,
              [c EXCEPT !.diag = Append(@, "warn: Missing vertex attribute")])
       ELSE LET buffer == vertexBuffers[j]
                a == ConsoleAssert(attrib.type.type = buffer.type.type,
                                   "assert: attribute type differs")
                     \o ConsoleAssert(attrib.type.size = buffer.type.size,
                                      "assert: attribute size differs")
                     \o ConsoleAssert(buffer.bufferType = "ARRAY_BUFFER",
                                      "assert: not an ARRAY_BUFFER")
                c1 == glEnableVertexAttribArray([c EXCEPT !.diag = @ \o a],
                                                attrib.location)
                c2 == glBindBuffer(c1, buffer.bufferType, buffer.buffer)
            IN setGeometryLoop(attribs, vertexBuffers, i + 1,
                 glVertexAttribPointer(c2, attrib.location,
                                       attrib.type.elemCount, attrib.type.elemType))

\* BindMachine._setGeometry with the bind machine b and the context c; the
\* result is the pair [bm, c].  With no shader bound the assertion logs and
\* the read of this.shader!.vertexAttributes throws.
_setGeometry(b, c, geometry) ==
  LET a == ConsoleAssert(b.shader # NULL,
                         "assert: Must have a shader bound before binding geometry.")
      c1 == [c EXCEPT !.diag = @ \o a]
      indices == GeometryOf(geometry).indexBuffer
      c2 == IF indices # NULL THEN glBindBuffer(c1, "ELEMENT_ARRAY_BUFFER", indices)
            ELSE c1
  IN [bm |-> [b EXCEPT !.geometry = geometry],
      c |-> IF b.shader = NULL THEN [c2 EXCEPT !.thrown = "TypeError"]
            ELSE setGeometryLoop(vertexAttributes(b.shader),
                                 GeometryOf(geometry).vertexBuffers, 1, c2)]

\* A setVao that keeps the cached geometry when the vertex array changes.
setVaoKeepsGeometry(b, c, vao) ==
  IF b.vao = vao THEN [bm |-> b, c |-> c]
  ELSE [bm |-> [b EXCEPT !.vao = vao],
        c |-> bindVertexArrayOES(c, vao)]

\* BindMachine.setVao with the bind machine b and the context c.
setVao(b, c, vao) ==
  IF b.vao = vao THEN [bm |-> b, c |-> c]
  ELSE [bm |-> [b EXCEPT !.geometry = NULL, !.vao = vao],
        c |-> bindVertexArrayOES(c, vao)]

\* ---------------------------------------------------------------- inputs
\* [material, name, value] arguments tried for Material.setUniform.
SetUniformInputs ==
  { << "M1", "color", NumberArray(<< 1, 1 >>) >>,
    << "M1", "color", IntoNumber(1) >>,
    << "M1", "color_texture", TextureValue("T1") >>,
    << "M1", "mask_texture", TextureValue("T2") >>,
    << "M1", "missing", IntoNumber(1) >> }

\* [material, name, source] arguments tried for Material.setUniformSource.
SetUniformSourceInputs ==
  { << "M1", "color", FromEnvironment >>,
    << "M1", "color", FromInstance >>,
    << "M1", "color_texture", FromInstance >>,
    << "M1", "missing", FromInstance >> }

\* [map, name, type, value] arguments tried for UniformMap.set.
MapSetInputs ==
  { << "E1", "color", FLOAT_VEC2, NumberArray(<< 1, 1 >>) >>,
    << "E1", "color", FLOAT, IntoNumber(1) >>,
    << "E1", "color", FLOAT_VEC2, IntoNumber(1) >>,
    << "I1", "color", FLOAT_VEC2, NumberArray(<< 2, 2 >>) >>,
    << "I1", "color_texture", SAMPLER_2D, TextureValue("T1") >> }

NoDefaults == [n \in UniformNames \cup {"missing"} |-> UNDEFINED]

\* Contents of the default-source registry when the materials are built.
RegistryChoices ==
  { NoDefaults,
    [NoDefaults EXCEPT !["color"] = FromInstance],
    [NoDefaults EXCEPT !["color"] = FromEnvironment] }

\* new BtocFile(): no entries; nothing encoded or parsed yet.  entries is the
\* container's map; file is the result of the last encodeAsBytes, input and
\* parsed the argument and the result of the last BtocFile.from, all three
\* forgotten when the container changes.
NewBtoc == [entries |-> << >>, sets |-> 0, file |-> << >>, input |-> << >>,
            parsed |-> << >>]

\* No Geometry constructed and no scene tree built yet.
NoGeometry == [vertexCount |-> 0, vertexBuffers |-> << >>, indexCount |-> UNDEFINED,
               indexBuffer |-> NULL]
NoMesh == [present |-> FALSE, submeshes |-> << >>]
NodeUniforms(id) == << "N1", "N2", "N3", "N4", "N5" >>[id]
NodeMaps == { NodeUniforms(id) : id \in 1..MaxNodes }
\* new Node3D(name) and new MeshNode3D(name) as node number id; a mesh is the
\* list of its submeshes.
Node3D(id) == [kind |-> "Node3D", mesh |-> NoMesh, uniforms |-> NULL,
               children |-> << >>, parent |-> 0]
MeshNode3D(id) == [kind |-> "MeshNode3D", mesh |-> NoMesh,
                   uniforms |-> NodeUniforms(id), children |-> << >>, parent |-> 0]
\* The graph of a new SceneTree3D: its root, no submesh constructed, nothing
\* drawn.
NoGraph == [geometry |-> NoGeometry, submeshes |-> << >>, nodes |-> << Node3D(1) >>,
            log |-> << >>]

\* No Node constructed, no light hooked in the Light3DExtension and no call
\* made on a node.
NoTree == [nodes |-> << >>, pointLights |-> << >>, directionalLights |-> << >>,
           calls |-> 0]

\* No converter constructed: no writer, nothing written, no file and nothing
\* read back.
NoCodec ==
  [constructed |-> FALSE,
   writer |-> [data |-> [t |-> "undefined", n |-> 0, s |-> << >>, k |-> << >>, a |-> << >>],
               btoc |-> << >>, console |-> << >>],
   writerCalls |-> 0,
   returned |-> << >>,
   written |-> << >>,
   failed |-> FALSE,
   finished |-> FALSE,
   file |-> << >>,
   read |-> FALSE,
   entries |-> << >>,
   scene |-> [t |-> "undefined", n |-> 0, s |-> << >>, k |-> << >>, a |-> << >>],
   geometries |-> << >>]

\* fallbackMaterial = null; object references are positive.
NoMaterial == 0
\* No BtocMeshReader constructed, no shader constructor registered and no
\* fallback material set; no object made and nothing logged.
NoReader == [constructed |-> FALSE, shaderConstructors |-> {}, fallbackMaterial |-> NoMaterial,
             heap |-> << >>, returned |-> << >>, console |-> << >>]

Op(op, obj, name, path) == [op |-> op, obj |-> obj, name |-> name, path |-> path]

\* ------------------------------------------------------------------- Init
InitObjects ==
  /\ defaultUniformSources \in RegistryChoices
  /\ materials = [m \in Materials |-> NewMaterial(ShaderOf(m), defaultUniformSources)]
  /\ maps = [x \in EnvMaps \cup InstMaps |-> NewUniformMap]
  /\ bm = NewBindMachine
  /\ gpu = NewGpu
  /\ calls = << >>
  /\ diag = << >>
  /\ thrown = "none"
  /\ lastOp = Op("init", NULL, "", "")
  /\ mutations = 0
  /\ btoc = NewBtoc
  /\ reader = NoReader
  /\ graph = NoGraph
  /\ codec = NoCodec

Init ==
  /\ InitObjects
  /\ tree = NoTree

\* ---------------------------------------------------------------- actions
\* A Material.setUniform that leaves the uniform's valueSource as it was.
MaterialSetUniformKeepsSource(m, name, value) ==
  LET i == MapIndex(materials[m].uniforms, name)
  IN /\ mutations < MaxMutations
     /\ mutations' = mutations + 1
     /\ calls' = << >>
     /\ thrown' = "none"
     /\ UNCHANGED << outside, defaultUniformSources, maps, bm, gpu >>
     /\ IF i = 0
        THEN /\ diag' = << "warn: Uniform does not exist" >>
             /\ lastOp' = Op("setUniform", m, name, "missing")
             /\ UNCHANGED materials
        ELSE LET newUniform == [materials[m].uniforms[i] EXCEPT
                                  !.value = UniformValue(value),
                                  !.hasBeenWritten = TRUE]
             IN /\ diag' = validateUniformWithValue(newUniform)
                /\ materials' = [materials EXCEPT
                                   ![m].uniforms = MapSet(@, newUniform),
                                   ![m].hasChangedSinceLastBound = TRUE]
                /\ lastOp' = Op("setUniform", m, name, "set")

\* Material.setUniform(name, value)
MaterialSetUniform(m, name, value) ==
  LET i == MapIndex(materials[m].uniforms, name)
  IN /\ mutations < MaxMutations
     /\ mutations' = mutations + 1
     /\ calls' = << >>
     /\ thrown' = "none"
     /\ UNCHANGED << outside, defaultUniformSources, maps, bm, gpu >>
     /\ IF i = 0
        THEN /\ diag' = << "warn: Uniform does not exist" >>
             /\ lastOp' = Op("setUniform", m, name, "missing")
             /\ UNCHANGED materials
        ELSE LET newUniform == [materials[m].uniforms[i] EXCEPT
                                  !.value = UniformValue(value),
                                  !.valueSource = FromMaterial,
                                  !.hasBeenWritten = TRUE]
             IN /\ diag' = validateUniformWithValue(newUniform)
                /\ materials' = [materials EXCEPT
                                   ![m].uniforms = MapSet(@, newUniform),
                                   ![m].hasChangedSinceLastBound = TRUE]
                /\ lastOp' = Op("setUniform", m, name, "set")

\* Material.setUniformSource(name, source)
MaterialSetUniformSource(m, name, source) ==
  LET i == MapIndex(materials[m].uniforms, name)
  IN /\ mutations < MaxMutations
     /\ mutations' = mutations + 1
     /\ calls' = << >>
     /\ thrown' = "none"
     /\ UNCHANGED << outside, defaultUniformSources, maps, bm, gpu >>
     /\ IF i = 0
        THEN /\ diag' = << "warn: Uniform does not exist" >>
             /\ lastOp' = Op("setUniformSource", m, name, "missing")
             /\ UNCHANGED materials
        ELSE /\ diag' = << >>
             /\ materials' = [materials EXCEPT
                                ![m].uniforms = MapSet(@, [materials[m].uniforms[i] EXCEPT
                                                             !.valueSource = source,
                                                             !.hasBeenWritten = TRUE]),
                                ![m].hasChangedSinceLastBound = TRUE]
             /\ lastOp' = Op("setUniformSource", m, name, "set")

\* UniformMap.set(name, type, value): setFromTuple -> UniformWithValue
\* (validated) -> setFromObject.
UniformMapSet(x, name, type, value) ==
  LET uniform == UniformWithValue(name, type, value, 1)
  IN /\ mutations < MaxMutations
     /\ mutations' = mutations + 1
     /\ calls' = << >>
     /\ thrown' = "none"
     /\ diag' = validateUniformWithValue(uniform)
     /\ maps' = [maps EXCEPT ![x].uniforms = MapSet(@, uniform),
                             ![x].hasChangedSinceLastBound = TRUE]
     /\ lastOp' = Op("set", x, name, "set")
     /\ UNCHANGED << outside, defaultUniformSources, materials, bm, gpu >>

\* BindMachine.clear()
Clear ==
  /\ bm' = NewBindMachine
  /\ calls' = << >>
  /\ diag' = << >>
  /\ thrown' = "none"
  /\ lastOp' = Op("clear", NULL, "", "")
  /\ UNCHANGED << outside, defaultUniformSources, materials, maps, gpu, mutations >>

\* A setEnvironment that adopts the environment and keeps the current
\* material.
SetEnvironmentKeepsMaterial(e) ==
  /\ calls' = << >>
  /\ diag' = << >>
  /\ thrown' = "none"
  /\ UNCHANGED << outside, defaultUniformSources, materials, gpu, mutations >>
  /\ IF bm.environment = e /\ ~maps[e].hasChangedSinceLastBound
     THEN /\ lastOp' = Op("setEnvironment", e, "", "noop")
          /\ UNCHANGED << bm, maps >>
     ELSE /\ bm' = [bm EXCEPT !.environment = e]
          /\ maps' = [maps EXCEPT ![e].hasChangedSinceLastBound = FALSE]
          /\ lastOp' = Op("setEnvironment", e, "", "adopt")

\* BindMachine.setEnvironment(environment)
SetEnvironment(e) ==
  /\ calls' = << >>
  /\ diag' = << >>
  /\ thrown' = "none"
  /\ UNCHANGED << outside, defaultUniformSources, materials, gpu, mutations >>
  /\ IF bm.environment = e /\ ~maps[e].hasChangedSinceLastBound
     THEN /\ lastOp' = Op("setEnvironment", e, "", "noop")
          /\ UNCHANGED << bm, maps >>
     ELSE /\ bm' = [bm EXCEPT !.environment = e, !.material = NULL]
          /\ maps' = [maps EXCEPT ![e].hasChangedSinceLastBound = FALSE]
          /\ lastOp' = Op("setEnvironment", e, "", "adopt")

\* BindMachine.setInstanceUniforms(instanceUniforms | null)
SetInstanceUniforms(x) ==
  /\ calls' = << >>
  /\ diag' = << >>
  /\ thrown' = "none"
  /\ UNCHANGED << outside, defaultUniformSources, materials, gpu, mutations >>
  /\ IF /\ bm.instanceUniforms = x
        /\ x # NULL
        /\ ~maps[x].hasChangedSinceLastBound
     THEN /\ lastOp' = Op("setInstanceUniforms", x, "", "noop")
          /\ UNCHANGED << bm, maps >>
     ELSE /\ bm' = [bm EXCEPT !.instanceUniforms = x,
                              !.wereInstanceUniformsChanged = TRUE]
          /\ maps' = IF x # NULL
                     THEN [maps EXCEPT ![x].hasChangedSinceLastBound = FALSE]
                     ELSE maps
          /\ lastOp' = Op("setInstanceUniforms", x, "", "adopt")

\* BindMachine.setMaterial(material)
SetMaterial(m) ==
  LET material == materials[m]
      a == ConsoleAssert(bm.environment # NULL,
                         "assert: Must set environment before setting a material.")
  IN /\ UNCHANGED << outside, defaultUniformSources, maps, mutations >>
     /\ IF bm.material = m /\ ~material.hasChangedSinceLastBound
        THEN IF ~bm.wereInstanceUniformsChanged \/ bm.instanceUniforms = NULL
             THEN /\ calls' = << >>
                  /\ diag' = a
                  /\ thrown' = "none"
                  /\ lastOp' = Op("setMaterial", m, "", "noop")
                  /\ UNCHANGED << bm, gpu, materials >>
             ELSE LET c == partialUpdateLoop(maps[bm.instanceUniforms],
                                             material.uniforms, 1, Ctx(gpu, a))
                  IN /\ gpu' = c.gpu
                     /\ calls' = c.calls
                     /\ diag' = c.diag
                     /\ thrown' = c.thrown
                     /\ lastOp' = Op("setMaterial", m, "", "partial")
                     /\ UNCHANGED << bm, materials >>
        ELSE LET c0 == _setShader(bm.shader, Ctx(gpu, a), material.shader)
                 st == fullUpdateLoop(maps, material.uniforms,
                                      bm.environment, bm.instanceUniforms, 1,
                                      [c |-> c0, textureUnit |-> 0])
             IN /\ bm' = [bm EXCEPT !.shader = material.shader, !.material = m]
                /\ materials' = [materials EXCEPT ![m].hasChangedSinceLastBound = FALSE]
                /\ gpu' = st.c.gpu
                /\ calls' = st.c.calls
                /\ diag' = st.c.diag
                /\ thrown' = st.c.thrown
                /\ lastOp' = Op("setMaterial", m, "", "full")

\* BindMachine.setVao(vao | null)
SetVao(v) ==
  LET r == setVao(bm, Ctx(gpu, << >>), v)
  IN /\ bm' = r.bm
     /\ gpu' = r.c.gpu
     /\ calls' = r.c.calls
     /\ diag' = r.c.diag
     /\ thrown' = r.c.thrown
     /\ lastOp' = Op("setVao", v, "", IF bm.vao = v THEN "noop" ELSE "bind")
     /\ UNCHANGED << outside, defaultUniformSources, materials, maps, mutations >>

\* A createVao that keeps the current material.
CreateVaoKeepsMaterial(g, shader) ==
  LET c0 == createVertexArrayOES(Ctx(gpu, << >>))
      vao == VaoHandle(c0.gpu.vaoCount)
      r1 == setVao(bm, c0, vao)
      c2 == _setShader(r1.bm.shader, r1.c, shader)
      r3 == _setGeometry([r1.bm EXCEPT !.shader = shader], c2, g)
  IN /\ gpu.vaoCount < MaxVaos
     /\ bm' = r3.bm
     /\ gpu' = r3.c.gpu
     /\ calls' = r3.c.calls
     /\ diag' = r3.c.diag
     /\ thrown' = r3.c.thrown
     /\ lastOp' = Op("createVao", g, shader, vao)
     /\ UNCHANGED << outside, defaultUniformSources, materials, maps, mutations >>

\* BindMachine.createVao(geometry, shader)
CreateVao(g, shader) ==
  LET c0 == createVertexArrayOES(Ctx(gpu, << >>))
      vao == VaoHandle(c0.gpu.vaoCount)
      r1 == setVao([bm EXCEPT !.material = NULL], c0, vao)
      c2 == _setShader(r1.bm.shader, r1.c, shader)
      r3 == _setGeometry([r1.bm EXCEPT !.shader = shader], c2, g)
  IN /\ gpu.vaoCount < MaxVaos
     /\ bm' = r3.bm
     /\ gpu' = r3.c.gpu
     /\ calls' = r3.c.calls
     /\ diag' = r3.c.diag
     /\ thrown' = r3.c.thrown
     /\ lastOp' = Op("createVao", g, shader, vao)
     /\ UNCHANGED << outside, defaultUniformSources, materials, maps, mutations >>

\* BindMachine.setGeometryWithoutVao(geometry)
SetGeometryWithoutVao(g) ==
  /\ UNCHANGED << outside, defaultUniformSources, materials, maps, mutations >>
  /\ IF bm.geometry = g
     THEN /\ calls' = << >>
          /\ diag' = << >>
          /\ thrown' = "none"
          /\ lastOp' = Op("setGeometryWithoutVao", g, "", "noop")
          /\ UNCHANGED << bm, gpu >>
     ELSE LET c1 == bindVertexArrayOES(Ctx(gpu, << >>), NULL)
              r == _setGeometry([bm EXCEPT !.vao = NULL], c1, g)
          IN /\ bm' = r.bm
             /\ gpu' = r.c.gpu
             /\ calls' = r.c.calls
             /\ diag' = r.c.diag
             /\ thrown' = r.c.thrown
             /\ lastOp' = Op("setGeometryWithoutVao", g, "", "bind")

\* Shader.bind()
ShaderBind(shader) ==
  LET c == glUseProgram(Ctx(gpu, << >>), shader)
  IN /\ gpu' = c.gpu
     /\ calls' = c.calls
     /\ diag' = c.diag
     /\ thrown' = c.thrown
     /\ lastOp' = Op("Shader.bind", shader, "", "")
     /\ UNCHANGED << outside, defaultUniformSources, materials, maps, bm, mutations >>

\* VertexBuffer.createBuffer(data, buffer_type, usage)
CreateBuffer(buffer_type) ==
  LET r == setVao(bm, Ctx(gpu, << >>), NULL)
      c1 == glCreateBuffer(r.c)
      buffer == BufferHandle(c1.gpu.bufferCount)
      c2 == glBufferData(glBindBuffer(c1, buffer_type, buffer), buffer_type)
  IN /\ gpu.bufferCount < MaxBuffers
     /\ bm' = r.bm
     /\ gpu' = c2.gpu
     /\ calls' = c2.calls
     /\ diag' = c2.diag
     /\ thrown' = c2.thrown
     /\ lastOp' = Op("createBuffer", buffer, buffer_type, "")
     /\ UNCHANGED << outside, defaultUniformSources, materials, maps, mutations >>

Next ==
  \/ \E in \in SetUniformInputs : MaterialSetUniform(in[1], in[2], in[3])
  \/ \E in \in SetUniformSourceInputs : MaterialSetUniformSource(in[1], in[2], in[3])
  \/ \E in \in MapSetInputs : UniformMapSet(in[1], in[2], in[3], in[4])
  \/ Clear
  \/ \E e \in EnvMaps : SetEnvironment(e)
  \/ \E x \in InstMaps \cup {NULL} : SetInstanceUniforms(x)
  \/ \E m \in {"M1", "M2"} : SetMaterial(m)

Spec == Init /\ [][Next]_vars

\* [geometry, shader] arguments tried for createVao, as Submesh passes them.
CreateVaoInputs == { << "G1", "S1" >>, << "G2", "S2" >> }

\* The binding operations of the bind machine together: materials M1 and M3
\* use different programs, and environment E1 can be mutated between binds.
InitBind ==
  /\ Init
  /\ defaultUniformSources = NoDefaults

NextBind ==
  \/ UniformMapSet("E1", "color", FLOAT_VEC2, NumberArray(<< 1, 1 >>))
  \/ Clear
  \/ \E e \in EnvMaps : SetEnvironment(e)
  \/ \E x \in InstMaps \cup {NULL} : SetInstanceUniforms(x)
  \/ \E m \in {"M1", "M3"} : SetMaterial(m)
  \/ \E v \in VaoHandles \cup {NULL} : SetVao(v)
  \/ \E in \in CreateVaoInputs : CreateVao(in[1], in[2])

SpecBind == InitBind /\ [][NextBind]_vars

\* Geometry binding with and without vertex-array objects, under one
\* environment that is never mutated.
NextGeometry ==
  \/ Clear
  \/ SetEnvironment("E1")
  \/ \E m \in {"M1", "M3"} : SetMaterial(m)
  \/ \E v \in VaoHandles \cup {NULL} : SetVao(v)
  \/ \E in \in CreateVaoInputs : CreateVao(in[1], in[2])
  \/ \E g \in Geometries : SetGeometryWithoutVao(g)

SpecGeometry == InitBind /\ [][NextGeometry]_vars

\* Every operation that touches the GPU's program or vertex-array binding,
\* Shader.bind and buffer creation included.
NextCache ==
  \/ Clear
  \/ SetEnvironment("E1")
  \/ SetMaterial("M1")
  \/ \E v \in VaoHandles \cup {NULL} : SetVao(v)
  \/ \E in \in CreateVaoInputs : CreateVao(in[1], in[2])
  \/ SetGeometryWithoutVao("G1")
  \/ \E s \in Shaders : ShaderBind(s)
  \/ \E t \in {"ARRAY_BUFFER", "ELEMENT_ARRAY_BUFFER"} : CreateBuffer(t)

SpecCache == InitBind /\ [][NextCache]_vars

\* The seven operations of the bind machine that change its shader, material,
\* vertex array or geometry, over two materials with different shaders.
NextShader ==
  \/ Clear
  \/ SetEnvironment("E1")
  \/ \E x \in InstMaps \cup {NULL} : SetInstanceUniforms(x)
  \/ \E m \in {"M1", "M3"} : SetMaterial(m)
  \/ \E v \in {"V1", NULL} : SetVao(v)
  \/ \E s \in Shaders : CreateVao("G1", s)
  \/ SetGeometryWithoutVao("G1")

SpecShader == InitBind /\ [][NextShader]_vars

\* Handles gl.createTexture hands out, in order; T1 and T2 are the textures
\* that exist from the start.
TextureHandle(n) == << "T3", "T4", "T5", "T6" >>[n]

glCreateTexture(c) ==
  [c EXCEPT !.gpu.textureCount = @ + 1,
            !.calls = Append(@, Call("createTexture", NULL, "",
                                     TextureHandle(c.gpu.textureCount + 1), 0, << >>))]

\* gl.texImage2D and gl.texParameteri change the texture object bound on the
\* active unit, not the bindings.
glTexture2D(c, fn) == [c EXCEPT !.calls = Append(@, Call(fn, NULL, "", NULL, 0, << >>))]

\* Texture.from(source): the new texture is bound on the unit that is active.
Texture_from(c) ==
  glTexture2D(glTexture2D(glTexture2D(glTexture2D(glTexture2D(
    glBindTexture(glCreateTexture(c), TextureHandle(c.gpu.textureCount + 1)),
    "texImage2D"), "texParameteri"), "texParameteri"), "texParameteri"), "texParameteri")

TextureFrom ==
  LET c == Texture_from(Ctx(gpu, << >>))
  IN /\ gpu.textureCount < MaxTextures
     /\ gpu' = c.gpu
     /\ calls' = c.calls
     /\ diag' = c.diag
     /\ thrown' = c.thrown
     /\ lastOp' = Op("Texture.from", TextureHandle(gpu.textureCount + 1), "", "")
     /\ UNCHANGED << outside, defaultUniformSources, materials, maps, bm, mutations >>

\* Materials are given textures and bound, and textures are created in
\* between.
NextTexture ==
  \/ SetEnvironment("E1")
  \/ \E m \in {"M1", "M3"} : SetMaterial(m)
  \/ \E name \in {"color_texture", "mask_texture"}, t \in Textures :
       MaterialSetUniform("M1", name, TextureValue(t))
  \/ TextureFrom
  \/ Clear

SpecTexture == InitBind /\ [][NextTexture]_vars

\* --------------------------------------------------- Geometry objects
\* VertexBuffer.createBuffer with the bind machine b and the context c.
createBuffer(b, c, buffer_type) ==
  LET r == setVao(b, c, NULL)
      c1 == glCreateBuffer(r.c)
      buffer == BufferHandle(c1.gpu.bufferCount)
  IN [bm |-> r.bm,
      c |-> glBufferData(glBindBuffer(c1, buffer_type, buffer), buffer_type),
      buffer |-> buffer]

\* new VertexBuffer(buffer, bufferType, type, isNormalized): the two
\* assertions and the object.
VertexBuffer(buffer, bufferType, type) ==
  [buffer |-> buffer, bufferType |-> bufferType, type |-> type,
   diag |-> ConsoleAssert(bufferType # "ARRAY_BUFFER" \/ type.elemType = INT
                            \/ type.elemType = FLOAT,
                          "assert: vertex buffers hold int or float")
            \o ConsoleAssert(bufferType # "ELEMENT_ARRAY_BUFFER"
                               \/ type.elemType = UNSIGNED_SHORT,
                             "assert: index buffers hold unsigned short")]

\* VertexBuffer.from({data, type, isIndices}) for a number[]: the result is
\* the bind machine, the context and the VertexBuffer.
vertexBufferFrom(b, c, type, isIndices) ==
  LET btype == IF isIndices THEN "ELEMENT_ARRAY_BUFFER" ELSE "ARRAY_BUFFER"
      r == createBuffer(b, c, btype)
      vb == VertexBuffer(r.buffer, btype, type)
  IN [bm |-> r.bm, c |-> [r.c EXCEPT !.diag = @ \o vb.diag], vertexBuffer |-> vb]

\* new Geometry(vertexCount, vertexBuffers, indexCount?, indexBuffer?):
\* vertexBuffers are [name, VertexBuffer] pairs, indexBuffer is the buffer of
\* a VertexBuffer or NULL, indexCount a number or UNDEFINED.
RECURSIVE geometryBuffers(_, _)
geometryBuffers(vertexBuffers, st) ==
  IF vertexBuffers = << >> THEN st
  ELSE LET name == Head(vertexBuffers)[1]
           buffer == Head(vertexBuffers)[2]
       IN geometryBuffers(Tail(vertexBuffers),
            [map |-> MapSet(st.map, [name |-> name, buffer |-> buffer.buffer,
                                     type |-> buffer.type,
                                     bufferType |-> buffer.bufferType]),
             diag |-> st.diag
                      \o ConsoleAssert(~MapHas(st.map, name),
                                       "assert: two buffers with one name")
                      \o ConsoleAssert(buffer.bufferType = "ARRAY_BUFFER",
                                       "assert: not an ARRAY_BUFFER")])

Geometry(vertexCount, vertexBuffers, indexCount, indexBuffer) ==
  LET a == IF indexBuffer # NULL
           THEN ConsoleAssert(indexCount # UNDEFINED,
                              "assert: index buffer without index count")
           ELSE << >>
      st == geometryBuffers(vertexBuffers, [map |-> << >>, diag |-> a])
  IN [geometry |-> [vertexCount |-> vertexCount,
                    indexCount |-> indexCount,
                    vertexBuffers |-> st.map,
                    indexBuffer |-> IF indexBuffer # NULL THEN indexBuffer ELSE NULL],
      diag |-> st.diag]

\* Geometry.createNamedBuffers(vertexCount, buffers) from buffer i on;
\* buffers are [name, type, data] with data a number[].
RECURSIVE createNamedBuffers(_, _, _, _)
createNamedBuffers(vertexCount, buffers, i, st) ==
  IF i > Len(buffers) THEN st
  ELSE LET name == buffers[i][1]
           type == GlType(buffers[i][2], 1)
           data == buffers[i][3]
           a == ConsoleAssert(Len(data) = vertexCount * type.elemCount,
                              "assert: A buffer had the wrong number of vertices!")
           r == vertexBufferFrom(st.bm, [st.c EXCEPT !.diag = @ \o a], type, FALSE)
       IN createNamedBuffers(vertexCount, buffers, i + 1,
            [bm |-> r.bm, c |-> r.c,
             result |-> Append(st.result, << name, r.vertexBuffer >>)])

\* Geometry.from(vertexCount, ...vertexBuffers)
geometry_from(b, c, vertexCount, vertexBuffers) ==
  LET r == createNamedBuffers(vertexCount, vertexBuffers, 1,
                              [bm |-> b, c |-> c, result |-> << >>])
      g == Geometry(vertexCount, r.result, UNDEFINED, NULL)
  IN [bm |-> r.bm, c |-> [r.c EXCEPT !.diag = @ \o g.diag], geometry |-> g.geometry]

\* Geometry.from_indexed(vertexCount, indices, ...vertexBuffers)
from_indexed(b, c, vertexCount, indices, vertexBuffers) ==
  LET ib == vertexBufferFrom(b, c, GlType(UNSIGNED_SHORT, 1), TRUE)
      r == createNamedBuffers(vertexCount, vertexBuffers, 1,
                              [bm |-> ib.bm, c |-> ib.c, result |-> << >>])
      g == Geometry(vertexCount, r.result, Len(indices), ib.vertexBuffer.buffer)
  IN [bm |-> r.bm, c |-> [r.c EXCEPT !.diag = @ \o g.diag], geometry |-> g.geometry]

\* The draw call of Submesh.draw for a geometry.
drawCall(geometry) ==
  IF geometry.indexCount # UNDEFINED
  THEN Call("drawElements", NULL, "TRIANGLES", NULL, geometry.indexCount, << >>)
  ELSE Call("drawArrays", NULL, "TRIANGLES", NULL, geometry.vertexCount, << >>)

\* Existing VertexBuffer objects handed to the Geometry constructor.
PositionBuffer == VertexBuffer("VB3", "ARRAY_BUFFER", GlType(FLOAT, 1))
IndexBuffer == VertexBuffer("IB1", "ELEMENT_ARRAY_BUFFER", GlType(UNSIGNED_SHORT, 1))

\* [vertexCount, vertexBuffers, indexCount, indexBuffer] arguments tried for
\* the Geometry constructor: the optional arguments given and left out.
GeometryInputs ==
  { << 3, << << "position", PositionBuffer >> >>, UNDEFINED, NULL >>,
    << 3, << << "position", PositionBuffer >> >>, 6, IndexBuffer.buffer >>,
    << 3, << << "position", PositionBuffer >> >>, 6, NULL >>,
    << 3, << << "position", PositionBuffer >> >>, UNDEFINED, IndexBuffer.buffer >>,
    << 0, << >>, 0, IndexBuffer.buffer >> }

\* [vertexCount, vertexBuffers] arguments tried for Geometry.from.
FromInputs ==
  { << 3, << << "position", FLOAT_VEC2, << 0, 0, 1, 0, 1, 1 >> >> >> >>,
    << 2, << << "position", FLOAT, << 0, 1 >> >>, << "uv", FLOAT_VEC2, << 0, 0, 1, 1 >> >> >> >> }

\* [vertexCount, indices, vertexBuffers] arguments tried for from_indexed.
FromIndexedInputs ==
  { << 3, << 0, 1, 2 >>, << << "position", FLOAT_VEC2, << 0, 0, 1, 0, 1, 1 >> >> >> >>,
    << 3, << >>, << << "position", FLOAT_VEC2, << 0, 0, 1, 0, 1, 1 >> >> >> >> }

\* new Geometry(...)
NewGeometry(vertexCount, vertexBuffers, indexCount, indexBuffer) ==
  LET g == Geometry(vertexCount, vertexBuffers, indexCount, indexBuffer)
  IN /\ graph' = [graph EXCEPT !.geometry = g.geometry]
     /\ calls' = << >>
     /\ diag' = g.diag
     /\ thrown' = "none"
     /\ lastOp' = Op("Geometry", NULL, "", "")
     /\ UNCHANGED << renderer, btoc, reader, codec, tree >>

\* Geometry.from(...)
GeometryFrom(vertexCount, vertexBuffers) ==
  LET r == geometry_from(bm, Ctx(gpu, << >>), vertexCount, vertexBuffers)
  IN /\ gpu.bufferCount + Len(vertexBuffers) <= MaxGeometryBuffers
     /\ graph' = [graph EXCEPT !.geometry = r.geometry]
     /\ bm' = r.bm
     /\ gpu' = r.c.gpu
     /\ calls' = r.c.calls
     /\ diag' = r.c.diag
     /\ thrown' = r.c.thrown
     /\ lastOp' = Op("Geometry.from", NULL, "", "")
     /\ UNCHANGED << defaultUniformSources, materials, maps, mutations, btoc, reader, codec, tree >>

\* Geometry.from_indexed(...)
GeometryFromIndexed(vertexCount, indices, vertexBuffers) ==
  LET r == from_indexed(bm, Ctx(gpu, << >>), vertexCount, indices, vertexBuffers)
  IN /\ gpu.bufferCount + Len(vertexBuffers) + 1 <= MaxGeometryBuffers
     /\ graph' = [graph EXCEPT !.geometry = r.geometry]
     /\ bm' = r.bm
     /\ gpu' = r.c.gpu
     /\ calls' = r.c.calls
     /\ diag' = r.c.diag
     /\ thrown' = r.c.thrown
     /\ lastOp' = Op("Geometry.from_indexed", NULL, "", "")
     /\ UNCHANGED << defaultUniformSources, materials, maps, mutations, btoc, reader, codec, tree >>

\* Geometry objects made in the three ways, between vertex-array changes.
NextGeometryObjects ==
  \/ \E in \in GeometryInputs : NewGeometry(in[1], in[2], in[3], in[4])
  \/ \E in \in FromInputs : GeometryFrom(in[1], in[2])
  \/ \E in \in FromIndexedInputs : GeometryFromIndexed(in[1], in[2], in[3])
  \/ \E in \in CreateVaoInputs : CreateVao(in[1], in[2])
  \/ \E v \in VaoHandles \cup {NULL} : SetVao(v)

SpecGeometryObjects == InitBind /\ [][NextGeometryObjects]_vars

\* ------------------------------------------------------ drawing a tree
\* The renderer's objects as one value that the calls of a draw thread
\* through: the bind machine, the uniform maps, the materials, the context
\* and the bind-machine and draw calls made so far.
World(b, ms, mats, c) == [bm |-> b, maps |-> ms, materials |-> mats, c |-> c, log |-> << >>]

called(w, call, arg) == [w EXCEPT !.log = Append(@, [call |-> call, arg |-> arg])]

\* UniformMap.set(name, type, value) inside a draw.
uniformMapSet(w, x, name, type, value) ==
  LET uniform == UniformWithValue(name, type, value, 1)
  IN [w EXCEPT !.maps[x].uniforms = MapSet(@, uniform),
               !.maps[x].hasChangedSinceLastBound = TRUE,
               !.c.diag = @ \o validateUniformWithValue(uniform)]

\* BindMachine.setEnvironment(environment) inside a draw.
setEnvironment(w, e) ==
  IF w.bm.environment = e /\ ~w.maps[e].hasChangedSinceLastBound THEN w
  ELSE [w EXCEPT !.bm.environment = e, !.bm.material = NULL,
                 !.maps[e].hasChangedSinceLastBound = FALSE]

\* BindMachine.setInstanceUniforms(instanceUniforms) inside a draw.
setInstanceUniforms(w, x) ==
  IF w.bm.instanceUniforms = x /\ x # NULL /\ ~w.maps[x].hasChangedSinceLastBound
  THEN w
  ELSE [w EXCEPT !.bm.instanceUniforms = x,
                 !.bm.wereInstanceUniformsChanged = TRUE,
                 !.maps = IF x # NULL
                          THEN [@ EXCEPT ![x].hasChangedSinceLastBound = FALSE]
                          ELSE @]

\* BindMachine.setMaterial(material) inside a draw.
setMaterial(w, m) ==
  LET material == w.materials[m]
      a == ConsoleAssert(w.bm.environment # NULL,
                         "assert: Must set environment before setting a material.")
      c == [w.c EXCEPT !.diag = @ \o a]
  IN IF w.bm.material = m /\ ~material.hasChangedSinceLastBound
     THEN IF ~w.bm.wereInstanceUniformsChanged \/ w.bm.instanceUniforms = NULL
          THEN [w EXCEPT !.c = c]
          ELSE [w EXCEPT !.c = partialUpdateLoop(w.maps[w.bm.instanceUniforms],
                                                 material.uniforms, 1, c)]
     ELSE LET st == fullUpdateLoop(w.maps, material.uniforms, w.bm.environment,
                                   w.bm.instanceUniforms, 1,
                                   [c |-> _setShader(w.bm.shader, c, material.shader),
                                    textureUnit |-> 0])
          IN [w EXCEPT !.bm.shader = material.shader, !.bm.material = m,
                       !.materials[m].hasChangedSinceLastBound = FALSE,
                       !.c = st.c]

\* The end of createVao: r1 is what setVao(vao) left, with the new shader
\* bound in the context c2.
createVaoGeometry(vao, r3) == [bm |-> r3.bm, c |-> r3.c, vao |-> vao]

createVaoShader(vao, r1, geometry, shader) ==
  createVaoGeometry(vao,
    _setGeometry([r1.bm EXCEPT !.shader = shader],
                 _setShader(r1.bm.shader, r1.c, shader), geometry))

createVaoBind(b, c0, geometry, shader) ==
  createVaoShader(VaoHandle(c0.gpu.vaoCount),
                  setVao([b EXCEPT !.material = NULL], c0, VaoHandle(c0.gpu.vaoCount)),
                  geometry, shader)

\* BindMachine.createVao(geometry, shader) with the bind machine b and the
\* context c; the result is the bind machine, the context and the handle.
createVao(b, c, geometry, shader) ==
  createVaoBind(b, createVertexArrayOES(c), geometry, shader)

\* The world after bindMachine.setVao(vao) returned r.
withVao(w, vao, r) == [called(w, "setVao", vao) EXCEPT !.bm = r.bm, !.c = r.c]

\* The world after the draw call d for the geometry.
withDrawCall(w, geometry, d) ==
  [called(w, d.fn, geometry) EXCEPT !.c.calls = Append(@, d)]

\* A Submesh.draw that binds the vertex array before the material.
Submesh_drawVaoFirstBound(w2, submesh) ==
  IF w2.c.thrown # "none" THEN w2
  ELSE withDrawCall(w2, submesh.geometry, drawCall(GeometryOf(submesh.geometry)))

Submesh_drawVaoFirst(w, submesh) ==
  Submesh_drawVaoFirstBound(
    setMaterial(called(withVao(w, submesh.vao, setVao(w.bm, w.c, submesh.vao)),
                       "setMaterial", submesh.material),
                submesh.material),
    submesh)

\* Submesh.draw() after bindMachine.setMaterial left the world w1: an
\* exception of setMaterial ends the draw.
Submesh_drawBound(w1, submesh) ==
  IF w1.c.thrown # "none" THEN w1
  ELSE withDrawCall(withVao(w1, submesh.vao, setVao(w1.bm, w1.c, submesh.vao)),
                    submesh.geometry, drawCall(GeometryOf(submesh.geometry)))

\* Submesh.draw()
Submesh_draw(w, submesh) ==
  Submesh_drawBound(setMaterial(called(w, "setMaterial", submesh.material),
                                submesh.material),
                    submesh)

\* Mesh.draw(): the loop over this.submeshes from i on.
RECURSIVE Mesh_draw(_, _, _, _)
Mesh_draw(w, g, submeshes, i) ==
  IF i > Len(submeshes) \/ w.c.thrown # "none" THEN w
  ELSE Mesh_draw(Submesh_draw(w, g.submeshes[submeshes[i]]), g, submeshes, i + 1)

\* MeshNode3D.draw(): the nodes carry no transform, so both matrices are the
\* identity.
MeshNode3D_draw(w, g, id) ==
  LET node == g.nodes[id]
      w1 == uniformMapSet(w, node.uniforms, "local_to_global", FLOAT_MAT4, Matrix4_identity)
      w2 == uniformMapSet(w1, node.uniforms, "local_to_clip", FLOAT_MAT4, Matrix4_identity)
      w3 == setInstanceUniforms(called(w2, "setInstanceUniforms", node.uniforms),
                                node.uniforms)
  IN IF ~node.mesh.present THEN w
     ELSE Mesh_draw(w3, g, node.mesh.submeshes, 1)

\* Node.recursively(callback) with the callback of SceneTree3D.draw, which
\* returns undefined: the node first, then its children from the first on.
RECURSIVE recursively(_, _, _)
RECURSIVE recursivelyChildren(_, _, _, _)
recursively(w, g, id) ==
  LET w1 == IF g.nodes[id].kind = "MeshNode3D" THEN MeshNode3D_draw(w, g, id) ELSE w
  IN IF w.c.thrown # "none" THEN w
     ELSE recursivelyChildren(w1, g, g.nodes[id].children, 1)

recursivelyChildren(w, g, children, i) ==
  IF i > Len(children) \/ w.c.thrown # "none" THEN w
  ELSE recursivelyChildren(recursively(w, g, children[i]), g, children, i + 1)

\* SceneTree3D.draw(); the tree's EnvironmentUniforms are E1.
SceneTree3D_draw(w, g) ==
  recursively(setEnvironment(called(w, "setEnvironment", "E1"), "E1"), g, 1)

\* [geometry, material] arguments tried for new Submesh.
SubmeshInputs == { << "G1", "M1" >>, << "G2", "M3" >> }

\* Meshes tried for MeshNode3D.from: lists of constructed submeshes, with a
\* submesh shared by two meshes, and the empty mesh.
MeshInputs(g) ==
  { submeshes \in { << >>, << 2 >>, << 1, 2 >>, << 1, 2, 3 >> } :
      \A i \in 1..Len(submeshes) : submeshes[i] <= Len(g.submeshes) }

\* new Submesh(geometry, material); r is what createVao returned.
SubmeshMade(geometry, material, r) ==
  /\ gpu.vaoCount < MaxVaos
  /\ graph' = [graph EXCEPT !.submeshes =
                 Append(@, [geometry |-> geometry, material |-> material,
                            vao |-> r.vao])]
  /\ bm' = r.bm
  /\ gpu' = r.c.gpu
  /\ calls' = r.c.calls
  /\ diag' = r.c.diag
  /\ thrown' = r.c.thrown
  /\ lastOp' = Op("Submesh", r.vao, "", "")
  /\ UNCHANGED << defaultUniformSources, materials, maps, mutations, btoc, reader, codec, tree >>

NewSubmesh(geometry, material) ==
  SubmeshMade(geometry, material,
              createVao(bm, Ctx(gpu, << >>), geometry, materials[material].shader))

\* parent.addChild(node) for a new node, in a scene tree: the default index
\* is -1.
AddChild(parent, node) ==
  LET id == Len(graph.nodes) + 1
  IN /\ id <= MaxNodes
     /\ graph' = [graph EXCEPT
                    !.nodes = Append([@ EXCEPT ![parent].children = spliceInsert(@, -1, id)],
                                     [node EXCEPT !.parent = parent])]
     /\ calls' = << >>
     /\ diag' = << >>
     /\ thrown' = "none"
     /\ lastOp' = Op("addChild", NULL, "", "")
     /\ UNCHANGED << renderer, btoc, reader, codec, tree >>

\* SceneTree3D.draw(); w is the world it left.
Drawn(w) ==
  /\ bm' = w.bm
  /\ maps' = w.maps
  /\ materials' = w.materials
  /\ gpu' = w.c.gpu
  /\ calls' = w.c.calls
  /\ diag' = w.c.diag
  /\ thrown' = w.c.thrown
  /\ graph' = [graph EXCEPT !.log = w.log]
  /\ lastOp' = Op("draw", NULL, "", "")
  /\ UNCHANGED << defaultUniformSources, mutations, btoc, reader, codec, tree >>

Draw == Drawn(SceneTree3D_draw(World(bm, maps, materials, Ctx(gpu, << >>)), graph))

\* The state after new SceneTree3D(): the three camera matrices are set in
\* the tree's EnvironmentUniforms, every node has its InstanceUniforms.
InitDraw ==
  /\ defaultUniformSources = NoDefaults
  /\ materials = [m \in Materials |-> NewMaterial(ShaderOf(m), defaultUniformSources)]
  /\ maps = [x \in EnvMaps \cup InstMaps \cup NodeMaps |->
               IF x = "E1"
               THEN [uniforms |->
                       << UniformWithValue("global_to_camera", FLOAT_MAT4, Matrix4_identity, 1),
                          UniformWithValue("camera_to_clip", FLOAT_MAT4, Matrix4_identity, 1),
                          UniformWithValue("global_to_clip", FLOAT_MAT4, Matrix4_identity, 1) >>,
                     hasChangedSinceLastBound |-> TRUE]
               ELSE NewUniformMap]
  /\ bm = NewBindMachine
  /\ gpu = NewGpu
  /\ calls = << >>
  /\ diag = << >>
  /\ thrown = "none"
  /\ lastOp = Op("init", NULL, "", "")
  /\ mutations = 0
  /\ btoc = NewBtoc
  /\ reader = NoReader
  /\ graph = NoGraph
  /\ codec = NoCodec
  /\ tree = NoTree

\* A scene tree is built from submeshes and nodes and drawn, again and
\* again, with the bind machine cleared in between.
NextDraw ==
  \/ \E in \in SubmeshInputs : NewSubmesh(in[1], in[2])
  \/ \E parent \in 1..Len(graph.nodes) : AddChild(parent, Node3D(Len(graph.nodes) + 1))
  \/ \E parent \in 1..Len(graph.nodes), submeshes \in MeshInputs(graph) :
       AddChild(parent, [MeshNode3D(Len(graph.nodes) + 1) EXCEPT
                           !.mesh = [present |-> TRUE, submeshes |-> submeshes]])
  \/ \E parent \in 1..Len(graph.nodes) : AddChild(parent, MeshNode3D(Len(graph.nodes) + 1))
  \/ Draw
  \/ Clear

SpecDraw == InitDraw /\ [][NextDraw]_vars

\* ------------------------------------------------ material construction
\* Argument lists tried for addDefaultUniformSources.
DefaultSourceInputs ==
  { << << "color", FromInstance >> >>,
    << << "color_texture", FromEnvironment >>, << "color", FromEnvironment >> >>,
    << << "mask_texture", FromInstance >> >> }

\* The loop of addDefaultUniformSources: defaultUniformSources.set per pair.
RECURSIVE setDefaultSources(_, _)
setDefaultSources(registry, sources) ==
  IF sources = << >> THEN registry
  ELSE setDefaultSources([registry EXCEPT ![Head(sources)[1]] = Head(sources)[2]],
                         Tail(sources))

\* addDefaultUniformSources(...sources)
AddDefaultUniformSources(sources) ==
  /\ defaultUniformSources' = setDefaultSources(defaultUniformSources, sources)
  /\ calls' = << >>
  /\ diag' = << >>
  /\ thrown' = "none"
  /\ lastOp' = Op("addDefaultUniformSources", NULL, "", "")
  /\ UNCHANGED << outside, materials, maps, bm, gpu, mutations >>

\* m = new Material(shader), for a material the bind machine does not hold:
\* the name m stands for the new object from here on.
ConstructMaterial(m) ==
  /\ bm.material # m
  /\ materials' = [materials EXCEPT ![m] = NewMaterial(ShaderOf(m), defaultUniformSources)]
  /\ calls' = << >>
  /\ diag' = << >>
  /\ thrown' = "none"
  /\ lastOp' = Op("Material", m, "", "")
  /\ UNCHANGED << outside, defaultUniformSources, maps, bm, gpu, mutations >>

\* Materials constructed while the registry of default sources grows.
NextMaterial ==
  \/ \E sources \in DefaultSourceInputs : AddDefaultUniformSources(sources)
  \/ \E m \in {"M1", "M3"} : ConstructMaterial(m)
  \/ \E in \in SetUniformInputs : MaterialSetUniform(in[1], in[2], in[3])
  \/ \E in \in SetUniformSourceInputs : MaterialSetUniformSource(in[1], in[2], in[3])

SpecMaterial == Init /\ [][NextMaterial]_vars

\* ================================================================ BTOC
\* JavaScript's NaN (what arithmetic on `undefined` yields), as a value no
\* offset can take.
NaN == -1000000

JsAdd(a, b) == IF a = NaN \/ b = NaN THEN NaN ELSE a + b

\* 2^n for the shift counts in use: 0, 8, 16 and 24.
Pow2(n) == IF n = 0 THEN 1 ELSE IF n = 8 THEN 256 ELSE IF n = 16 THEN 65536
           ELSE 16777216

\* a | b on two bytes.
RECURSIVE BitOr(_, _)
BitOr(a, b) ==
  IF a = 0 THEN b
  ELSE IF b = 0 THEN a
  ELSE (IF a % 2 = 1 \/ b % 2 = 1 THEN 1 ELSE 0) + 2 * BitOr(a \div 2, b \div 2)

\* bytes[index] used as an operand of << or |: `undefined` (index out of
\* range or NaN) converts to 0.
ByteOrZero(bytes, index) ==
  IF index # NaN /\ index >= 0 /\ index < Len(bytes) THEN bytes[index + 1] ELSE 0

\* The shift count JavaScript uses for `x << n` and `x >> n`: n modulo 32.
ShiftCount(n) == n % 32

\* readU64(bytes, start): the 32-bit OR of bytes[start+i] << (((7-i)*8) % 32)
\* and bytes[start+7], read as a signed 32-bit number.
readU64(bytes, start) ==
  LET B(i) == ByteOrZero(bytes, JsAdd(start, i))
      Lane(sh) == LET is == { i \in 0..7 : ShiftCount((7 - i) * 8) = sh }
                      lo == CHOOSE i \in is : \A j \in is : i <= j
                      hi == CHOOSE i \in is : \A j \in is : i >= j
                  IN BitOr(B(lo), B(hi))
      top == IF Lane(24) >= 128 THEN Lane(24) - 256 ELSE Lane(24)
  IN top * Pow2(24) + Lane(16) * Pow2(16) + Lane(8) * Pow2(8) + Lane(0)

\* The byte writeU64 stores at start+i: value >> (((7-i)*8) % 32), kept modulo
\* 256 by the Uint8Array (value a non-negative 32-bit number).
U64Byte(value, i) == (value \div Pow2(ShiftCount((7 - i) * 8))) % 256

\* writeU64(bytes, start, value); a store outside the array is dropped.
writeU64(bytes, start, value) ==
  [k \in 1..Len(bytes) |->
     IF k - 1 >= start /\ k - 1 < start + 8 THEN U64Byte(value, k - 1 - start)
     ELSE bytes[k]]

\* Uint8Array.prototype.slice(start, end): NaN counts as 0, a negative offset
\* counts from the end, both are clamped to the array.
SliceOffset(len, k) ==
  IF k = NaN THEN 0
  ELSE IF k < 0 THEN (IF len + k < 0 THEN 0 ELSE len + k)
  ELSE IF k > len THEN len ELSE k

\* A slice that takes the end offset as the last index to copy.
sliceInclusive(bytes, start, end) ==
  LET from == SliceOffset(Len(bytes), start)
      to == SliceOffset(Len(bytes), JsAdd(end, 1))
  IN IF from < to THEN SubSeq(bytes, from + 1, to) ELSE << >>

slice(bytes, start, end) ==
  LET from == SliceOffset(Len(bytes), start)
      to == SliceOffset(Len(bytes), end)
  IN IF from < to THEN SubSeq(bytes, from + 1, to) ELSE << >>

\* TextEncoder.encode on a string given as its code points (all below 2048).
\* The text is split in halves to keep the evaluation shallow.
RECURSIVE encodeUTF8(_)
encodeUTF8(text) ==
  IF text = << >> THEN << >>
  ELSE IF Len(text) = 1
  THEN LET cp == text[1]
       IN IF cp < 128 THEN << cp >>
          ELSE << 192 + (cp \div 64), 128 + (cp % 64) >>
  ELSE LET m == Len(text) \div 2
       IN encodeUTF8(SubSeq(text, 1, m)) \o encodeUTF8(SubSeq(text, m + 1, Len(text)))

\* TextDecoder('utf-8').decode: one- and two-byte sequences; any other byte
\* decodes to U+FFFD.
\* The bytes are split in halves, never between a lead byte and its
\* continuation byte, to keep the evaluation shallow.
IsLeadByte(b) == b >= 194 /\ b < 224

IsContinuationByte(b) == b >= 128 /\ b < 192

RECURSIVE decodeUTF8(_)
decodeUTF8(bytes) ==
  IF bytes = << >> THEN << >>
  ELSE IF Len(bytes) = 1
  THEN IF bytes[1] < 128 THEN << bytes[1] >> ELSE << 65533 >>
  ELSE IF Len(bytes) = 2 /\ IsLeadByte(bytes[1]) /\ IsContinuationByte(bytes[2])
  THEN << (bytes[1] - 192) * 64 + (bytes[2] - 128) >>
  ELSE LET h == Len(bytes) \div 2
           m == IF IsLeadByte(bytes[h]) /\ IsContinuationByte(bytes[h + 1])
                THEN (IF h > 1 THEN h - 1 ELSE h + 1)
                ELSE h
       IN decodeUTF8(SubSeq(bytes, 1, m)) \o decodeUTF8(SubSeq(bytes, m + 1, Len(bytes)))

\* The counting loop of encodeAsBytes from entry i on.
RECURSIVE countSizes(_, _, _)
countSizes(entries, i, sizes) ==
  IF i > Len(entries) THEN sizes
  ELSE countSizes(entries, i + 1,
         [binariesSize |-> sizes.binariesSize + Len(entries[i].bytes),
          entriesSize |-> sizes.entriesSize + 17 + Len(entries[i].nameUTF8)])

\* Stores src at dst[at..]; a store outside the array is dropped.
CopyInto(dst, at, src) ==
  [k \in 1..Len(dst) |->
     IF k - 1 >= at /\ k - 1 < at + Len(src) THEN src[k - at] ELSE dst[k]]

\* The per-entry loop of encodeAsBytes from entry i on; st holds the result
\* array, the two cursors and the console output.
RECURSIVE encodeLoop(_, _, _)
encodeLoop(entries, i, st) ==
  IF i > Len(entries) THEN st
  ELSE
    LET name == entries[i].nameUTF8
        bytes == entries[i].bytes
    IN IF Len(name) > 255
       THEN encodeLoop(entries, i + 1,
              [st EXCEPT !.diag = Append(@, "error: This name is too long for a btoc file")])
       ELSE
         LET binaryEnd == st.binaryCursor + Len(bytes)
             r1 == CopyInto(st.result, st.binaryCursor, bytes)
             r2 == CopyInto(CopyInto(r1, st.entryCursor, << Len(name) >>),
                            st.entryCursor + 1, name)
             nameEnd == st.entryCursor + 1 + Len(name)
             r3 == writeU64(writeU64(r2, nameEnd, st.binaryCursor), nameEnd + 8, binaryEnd)
         IN encodeLoop(entries, i + 1,
              [st EXCEPT !.result = r3, !.binaryCursor = binaryEnd,
                         !.entryCursor = nameEnd + 16])

\* BtocFile.encodeAsBytes(): [result, diag].
encodeAsBytes(container) ==
  LET entries == [i \in 1..Len(container) |->
                    [nameUTF8 |-> encodeUTF8(container[i].name),
                     bytes |-> container[i].bytes]]
      sizes == countSizes(entries, 1, [binariesSize |-> 0, entriesSize |-> 0])
      binariesSize == sizes.binariesSize
      entriesSize == sizes.entriesSize
      allocSize == binariesSize + entriesSize + 16
      tocStart == binariesSize + 8
      result == writeU64(writeU64([k \in 1..allocSize |-> 0], 0, tocStart),
                         tocStart, Len(entries))
      st == encodeLoop(entries, 1,
              [result |-> result, binaryCursor |-> 8, entryCursor |-> tocStart + 8,
               diag |-> << >>])
  IN [result |-> st.result, diag |-> st.diag]

\* The loop of BtocFile._read from entry i on.
RECURSIVE readLoop(_, _, _, _, _)
readLoop(bytes, count, i, cursor, result) ==
  IF i >= count THEN result
  ELSE
    LET nameLength == IF cursor # NaN /\ cursor >= 0 /\ cursor < Len(bytes)
                      THEN bytes[cursor + 1] ELSE NaN
        nameStart == JsAdd(cursor, 1)
        nameEnd == JsAdd(nameStart, nameLength)
        nameBytes == slice(bytes, nameStart, nameEnd)
        name == decodeUTF8(nameBytes)
        start == readU64(bytes, nameEnd)
        end == readU64(bytes, JsAdd(nameEnd, 8))
        entryBytes == slice(bytes, start, end)
    IN readLoop(bytes, count, i + 1, JsAdd(nameEnd, 16),
                MapSet(result, [name |-> name, bytes |-> entryBytes]))

\* BtocFile._read(bytes): the entries in insertion order.  No step of it can
\* throw: an out-of-range read is `undefined`, slice clamps.
_read(bytes) ==
  LET tocStart == readU64(bytes, 0)
      count == readU64(bytes, tocStart)
  IN readLoop(bytes, count, 0, tocStart + 8, << >>)

\* Names as sequences of code points: "", "a", "é" (two UTF-8 bytes), a name
\* of 255 bytes and a name of 128 characters that takes 256 bytes.
EmptyName == << >>

NameA == << 97 >>

NameE == << 233 >>

Name255 == [i \in 1..255 |-> 97]

LongName == [i \in 1..128 |-> 233]

\* A blob long enough for offsets above 255.
BigBlob == [i \in 1..300 |-> i % 256]

\* [name, binary] arguments tried for BtocFile.setBinary.
SetBinaryInputs ==
  { << EmptyName, << >> >>,
    << NameA, << 7 >> >>,
    << NameA, << 1, 2 >> >>,
    << NameE, << 1, 2 >> >>,
    << NameE, BigBlob >>,
    << Name255, << 7 >> >>,
    << LongName, << 1, 2 >> >> }

\* [name, text] arguments tried for BtocFile.setText.
SetTextInputs == { << NameA, << 97, 233 >> >> }

\* Lengths an encoded file is cut to before it is parsed.
CutPoints == { 0, 8, 12, 20, 30 }

\* BtocFile.setBinary(name, binary)
BtocSetBinary(name, binary) ==
  /\ btoc.sets < MaxSets
  /\ btoc' = [NewBtoc EXCEPT !.entries = MapSet(btoc.entries, [name |-> name, bytes |-> binary]),
                             !.sets = btoc.sets + 1]
  /\ diag' = ConsoleAssert(~MapHas(btoc.entries, name), "assert: !this.entries.has(name)")
  /\ calls' = << >>
  /\ thrown' = "none"
  /\ lastOp' = Op("setBinary", NULL, "", IF MapHas(btoc.entries, name) THEN "present" ELSE "new")
  /\ UNCHANGED << renderer, reader, graph, codec, tree >>

\* BtocFile.setText(name, text)
BtocSetText(name, text) ==
  LET binary == encodeUTF8(text)
  IN /\ btoc.sets < MaxSets
     /\ btoc' = [NewBtoc EXCEPT !.entries = MapSet(btoc.entries, [name |-> name, bytes |-> binary]),
                                !.sets = btoc.sets + 1]
     /\ diag' = ConsoleAssert(~MapHas(btoc.entries, name), "assert: !this.entries.has(name)")
     /\ calls' = << >>
     /\ thrown' = "none"
     /\ lastOp' = Op("setText", NULL, "", IF MapHas(btoc.entries, name) THEN "present" ELSE "new")
     /\ UNCHANGED << renderer, reader, graph, codec, tree >>

\* container.encodeAsBytes(), the result kept as the file.
BtocEncode ==
  LET r == encodeAsBytes(btoc.entries)
  IN /\ btoc' = [btoc EXCEPT !.file = r.result, !.input = << >>, !.parsed = << >>]
     /\ diag' = r.diag
     /\ calls' = << >>
     /\ thrown' = "none"
     /\ lastOp' = Op("encodeAsBytes", NULL, "", "")
     /\ UNCHANGED << renderer, reader, graph, codec, tree >>

\* BtocFile.from(bytes) on the encoded file.
BtocFrom ==
  /\ btoc' = [btoc EXCEPT !.input = btoc.file, !.parsed = _read(btoc.file)]
  /\ diag' = << >>
  /\ calls' = << >>
  /\ thrown' = "none"
  /\ lastOp' = Op("from", NULL, "", "whole")
  /\ UNCHANGED << renderer, reader, graph, codec, tree >>

\* BtocFile.from(bytes) on the first n bytes of the encoded file.
BtocFromTruncated(n) ==
  LET bytes == SubSeq(btoc.file, 1, n)
  IN /\ n < Len(btoc.file)
     /\ btoc' = [btoc EXCEPT !.input = bytes, !.parsed = _read(bytes)]
     /\ diag' = << >>
     /\ calls' = << >>
     /\ thrown' = "none"
     /\ lastOp' = Op("from", NULL, "", "cut")
     /\ UNCHANGED << renderer, reader, graph, codec, tree >>

NextBtoc ==
  \/ \E in \in SetBinaryInputs : BtocSetBinary(in[1], in[2])
  \/ \E in \in SetTextInputs : BtocSetText(in[1], in[2])
  \/ BtocEncode
  \/ BtocFrom
  \/ \E n \in CutPoints : BtocFromTruncated(n)

SpecBtoc == InitBind /\ [][NextBtoc]_vars

\* ================================================================ JSON
\* A JavaScript value that JSON can carry, and `undefined`: t is "null",
\* "undefined", "bool", "num", "str", "arr" or "obj"; strings are their code
\* points; the members of an object are values with their key in k, in
\* insertion order.
JValue(t, n, s, a) == [t |-> t, n |-> n, s |-> s, k |-> << >>, a |-> a]

JNull == JValue("null", 0, << >>, << >>)

JUndefined == JValue("undefined", 0, << >>, << >>)

JBool(b) == JValue("bool", IF b THEN 1 ELSE 0, << >>, << >>)

JNum(n) == JValue("num", n, << >>, << >>)

JStr(s) == JValue("str", 0, s, << >>)

JArr(a) == JValue("arr", 0, << >>, a)

JObj(members) == JValue("obj", 0, << >>, members)

Member(key, value) == [value EXCEPT !.k = key]

MemberIndex(obj, key) ==
  IF \E i \in 1..Len(obj.a) : obj.a[i].k = key
  THEN CHOOSE i \in 1..Len(obj.a) : obj.a[i].k = key
  ELSE 0

\* obj[key]
get(obj, key) ==
  IF MemberIndex(obj, key) = 0 THEN JUndefined
  ELSE Member(<< >>, obj.a[MemberIndex(obj, key)])

\* obj[key] = value
put(obj, key, value) ==
  IF MemberIndex(obj, key) = 0 THEN [obj EXCEPT !.a = Append(@, Member(key, value))]
  ELSE [obj EXCEPT !.a[MemberIndex(obj, key)] = Member(key, value)]

\* array[index], index counted from 0
elem(array, index) ==
  IF index >= 0 /\ index < Len(array.a) THEN array.a[index + 1] ELSE JUndefined

\* obj[key].push(value)
push(obj, key, value) == put(obj, key, JArr(Append(get(obj, key).a, value)))

\* String(n) for an integer n.
RECURSIVE decimal(_)
decimal(n) == IF n < 10 THEN << 48 + n >> ELSE decimal(n \div 10) \o << 48 + (n % 10) >>

numberToString(n) == IF n < 0 THEN << 45 >> \o decimal(0 - n) ELSE decimal(n)

\* JSON's quoting of a string without control characters: the quotation mark
\* and the backslash are escaped with a backslash.
RECURSIVE quote(_)
quote(s) ==
  IF s = << >> THEN << >>
  ELSE (IF Head(s) \in {34, 92} THEN << 92, Head(s) >> ELSE << Head(s) >>) \o quote(Tail(s))

\* JSON.stringify(value) for integer numbers: an undefined array element is
\* written as null, a member whose value is undefined is left out.
RECURSIVE stringify(_)
RECURSIVE stringifyElements(_, _)
RECURSIVE stringifyMembers(_, _, _)
stringify(value) ==
  CASE value.t \in {"null", "undefined"} -> << 110, 117, 108, 108 >>
    [] value.t = "bool" -> IF value.n = 1 THEN << 116, 114, 117, 101 >>
                           ELSE << 102, 97, 108, 115, 101 >>
    [] value.t = "num" -> numberToString(value.n)
    [] value.t = "str" -> << 34 >> \o quote(value.s) \o << 34 >>
    [] value.t = "arr" -> << 91 >> \o stringifyElements(value.a, 1) \o << 93 >>
    [] value.t = "obj" -> << 123 >> \o stringifyMembers(value.a, 1, TRUE) \o << 125 >>

stringifyElements(a, i) ==
  IF i > Len(a) THEN << >>
  ELSE (IF i > 1 THEN << 44 >> ELSE << >>) \o stringify(a[i]) \o stringifyElements(a, i + 1)

stringifyMembers(a, i, first) ==
  IF i > Len(a) THEN << >>
  ELSE IF a[i].t = "undefined" THEN stringifyMembers(a, i + 1, first)
  ELSE (IF first THEN << >> ELSE << 44 >>)
       \o << 34 >> \o quote(a[i].k) \o << 34, 58 >> \o stringify(a[i])
       \o stringifyMembers(a, i + 1, FALSE)

\* JSON.parse(text) for texts without white space: the result is the value
\* and the position after it, or ok = FALSE for a SyntaxError.
SyntaxError == [ok |-> FALSE, v |-> JNull, i |-> 0]

Parsed(v, i) == [ok |-> TRUE, v |-> v, i |-> i]

CharAt(text, i) == IF i >= 1 /\ i <= Len(text) THEN text[i] ELSE 0

IsDigit(c) == c >= 48 /\ c <= 57

Literal(text, i, word, v) ==
  IF i + Len(word) - 1 <= Len(text) /\ SubSeq(text, i, i + Len(word) - 1) = word
  THEN Parsed(v, i + Len(word))
  ELSE SyntaxError

RECURSIVE parseDigits(_, _, _)
parseDigits(text, i, n) ==
  IF IsDigit(CharAt(text, i)) THEN parseDigits(text, i + 1, 10 * n + (CharAt(text, i) - 48))
  ELSE Parsed(JNum(n), i)

parseNumber(text, i) ==
  IF CharAt(text, i) = 45
  THEN IF IsDigit(CharAt(text, i + 1))
       THEN LET r == parseDigits(text, i + 1, 0) IN Parsed(JNum(0 - r.v.n), r.i)
       ELSE SyntaxError
  ELSE parseDigits(text, i, 0)

RECURSIVE parseString(_, _, _)
parseString(text, i, s) ==
  LET c == CharAt(text, i)
  IN IF c = 34 THEN Parsed(JStr(s), i + 1)
     ELSE IF c = 92
     THEN IF CharAt(text, i + 1) \in {34, 92}
          THEN parseString(text, i + 2, Append(s, CharAt(text, i + 1)))
          ELSE SyntaxError
     ELSE IF c < 32 THEN SyntaxError
     ELSE parseString(text, i + 1, Append(s, c))

RECURSIVE parseValue(_, _)
RECURSIVE parseElements(_, _, _)
RECURSIVE parseMembers(_, _, _)
parseValue(text, i) ==
  LET c == CharAt(text, i)
  IN CASE c = 110 -> Literal(text, i, << 110, 117, 108, 108 >>, JNull)
       [] c = 116 -> Literal(text, i, << 116, 114, 117, 101 >>, JBool(TRUE))
       [] c = 102 -> Literal(text, i, << 102, 97, 108, 115, 101 >>, JBool(FALSE))
       [] c = 34 -> parseString(text, i + 1, << >>)
       [] c = 45 \/ IsDigit(c) -> parseNumber(text, i)
       [] c = 91 -> IF CharAt(text, i + 1) = 93 THEN Parsed(JArr(<< >>), i + 2)
                    ELSE parseElements(text, i + 1, << >>)
       [] c = 123 -> IF CharAt(text, i + 1) = 125 THEN Parsed(JObj(<< >>), i + 2)
                     ELSE parseMembers(text, i + 1, JObj(<< >>))
       [] OTHER -> SyntaxError

parseElements(text, i, a) ==
  LET r == parseValue(text, i)
  IN IF ~r.ok THEN SyntaxError
     ELSE IF CharAt(text, r.i) = 44 THEN parseElements(text, r.i + 1, Append(a, r.v))
     ELSE IF CharAt(text, r.i) = 93 THEN Parsed(JArr(Append(a, r.v)), r.i + 1)
     ELSE SyntaxError

parseMembers(text, i, obj) ==
  LET key == IF CharAt(text, i) = 34 THEN parseString(text, i + 1, << >>) ELSE SyntaxError
      r == IF key.ok /\ CharAt(text, key.i) = 58 THEN parseValue(text, key.i + 1)
           ELSE SyntaxError
  IN IF ~r.ok THEN SyntaxError
     ELSE IF CharAt(text, r.i) = 44 THEN parseMembers(text, r.i + 1, put(obj, key.v.s, r.v))
     ELSE IF CharAt(text, r.i) = 125 THEN Parsed(put(obj, key.v.s, r.v), r.i + 1)
     ELSE SyntaxError

parse(text) ==
  LET r == parseValue(text, 1)
  IN IF r.ok /\ r.i = Len(text) + 1 THEN r ELSE SyntaxError


\* ============================================================ mesh codec
\* JavaScript strings as their code points.
Str_root == << 114, 111, 111, 116 >>  \* "root"

Str_name == << 110, 97, 109, 101 >>  \* "name"

Str_children == << 99, 104, 105, 108, 100, 114, 101, 110 >>  \* "children"

Str_nodes == << 110, 111, 100, 101, 115 >>  \* "nodes"

Str_meshes == << 109, 101, 115, 104, 101, 115 >>  \* "meshes"

Str_geometries == << 103, 101, 111, 109, 101, 116, 114, 105, 101, 115 >>  \* "geometries"

Str_materials == << 109, 97, 116, 101, 114, 105, 97, 108, 115 >>  \* "materials"

Str_textures == << 116, 101, 120, 116, 117, 114, 101, 115 >>  \* "textures"

Str_attributes == << 97, 116, 116, 114, 105, 98, 117, 116, 101, 115 >>  \* "attributes"

Str_shaderName == << 115, 104, 97, 100, 101, 114, 78, 97, 109, 101 >>  \* "shaderName"

Str_uniforms == << 117, 110, 105, 102, 111, 114, 109, 115 >>  \* "uniforms"

Str_mimetype == << 109, 105, 109, 101, 116, 121, 112, 101 >>  \* "mimetype"

Str_position == << 112, 111, 115, 105, 116, 105, 111, 110 >>  \* "position"

Str_joints == << 106, 111, 105, 110, 116, 115 >>  \* "joints"

Str_png == << 105, 109, 97, 103, 101, 47, 112, 110, 103 >>  \* "image/png"

Str_phong == << 112, 104, 111, 110, 103 >>  \* "phong"

Str_color == << 99, 111, 108, 111, 114 >>  \* "color"

Str_color_texture == << 99, 111, 108, 111, 114, 95, 116, 101, 120, 116, 117, 114, 101 >>  \* "color_texture"

Str_body == << 98, 111, 100, 121 >>  \* "body"

\* ---- typed arrays
\* A number that is a 32-bit float, by its sign, biased exponent and fraction
\* bits; the one NaN of JavaScript is the quiet NaN.
Float32(sign, exponent, fraction) == [sign |-> sign, exponent |-> exponent, fraction |-> fraction]

QuietNaN == Float32(0, 255, 4194304)

RECURSIVE Flatten(_)
Flatten(seqs) == IF seqs = << >> THEN << >> ELSE Head(seqs) \o Flatten(Tail(seqs))

\* A Uint16Array that stores the high byte first.
Uint16BytesBigEndian(numbers) ==
  Flatten([i \in 1..Len(numbers) |->
             << (numbers[i] % 65536) \div 256, (numbers[i] % 65536) % 256 >>])

\* new Uint8Array(new Uint16Array(numbers).buffer): each integer modulo 2^16,
\* low byte first.
Uint16Bytes(numbers) ==
  Flatten([i \in 1..Len(numbers) |->
             << (numbers[i] % 65536) % 256, (numbers[i] % 65536) \div 256 >>])

\* new Uint8Array(new Int32Array(numbers).buffer): two's complement, low byte
\* first (the integers are within 32 bits).
Int32Bytes(numbers) ==
  Flatten([i \in 1..Len(numbers) |->
             << numbers[i] % 256, (numbers[i] \div 256) % 256,
                (numbers[i] \div 65536) % 256, (numbers[i] \div 16777216) % 256 >>])

\* new Uint8Array(new Float32Array(numbers).buffer): the IEEE 754 bits, low
\* byte first.
Float32Bytes(numbers) ==
  Flatten([i \in 1..Len(numbers) |->
             LET f == numbers[i]
             IN << f.fraction % 256, (f.fraction \div 256) % 256,
                   (f.exponent % 2) * 128 + (f.fraction \div 65536),
                   f.sign * 128 + (f.exponent \div 2) >>])

\* Array.from(new Uint16Array(bytes.buffer)), bytes.length a multiple of 2
Uint16Values(bytes) ==
  [i \in 1..(Len(bytes) \div 2) |-> bytes[2 * i - 1] + 256 * bytes[2 * i]]

\* Array.from(new Int32Array(bytes.buffer)), bytes.length a multiple of 4
Int32Values(bytes) ==
  [i \in 1..(Len(bytes) \div 4) |->
     LET top == bytes[4 * i]
     IN bytes[4 * i - 3] + 256 * bytes[4 * i - 2] + 65536 * bytes[4 * i - 1]
        + 16777216 * (IF top >= 128 THEN top - 256 ELSE top)]

\* Array.from(new Float32Array(bytes.buffer)), bytes.length a multiple of 4:
\* every NaN pattern reads as NaN.
Float32Values(bytes) ==
  [i \in 1..(Len(bytes) \div 4) |->
     LET f == Float32(bytes[4 * i] \div 128,
                      (bytes[4 * i] % 128) * 2 + (bytes[4 * i - 1] \div 128),
                      (bytes[4 * i - 1] % 128) * 65536 + bytes[4 * i - 2] * 256
                        + bytes[4 * i - 3])
     IN IF f.exponent = 255 /\ f.fraction # 0 THEN QuietNaN ELSE f]

\* ---- BtocMeshWriter
\* `geometries[${geometryId}].indices`
getIndicesBufferName(geometryId) ==
  << 103, 101, 111, 109, 101, 116, 114, 105, 101, 115, 91 >>
  \o numberToString(geometryId)
  \o << 93, 46, 105, 110, 100, 105, 99, 101, 115 >>

\* `geometries[${geometryId}].attributes["${attributeName}"]`
getVertexBufferName(geometryId, attributeName) ==
  << 103, 101, 111, 109, 101, 116, 114, 105, 101, 115, 91 >>
  \o numberToString(geometryId)
  \o << 93, 46, 97, 116, 116, 114, 105, 98, 117, 116, 101, 115, 91, 34 >>
  \o attributeName
  \o << 34, 93 >>

\* `textures[${textureId}]`
getTextureBufferName(textureId) ==
  << 116, 101, 120, 116, 117, 114, 101, 115, 91 >> \o numberToString(textureId) \o << 93 >>

\* The fields of a new BtocMeshWriter; console is what its calls have logged.
NewBtocMeshWriter ==
  [data |-> JObj(<< Member(Str_nodes, JObj(<< Member(Str_name, JStr(Str_root)),
                                             Member(Str_children, JArr(<< >>)) >>)),
                    Member(Str_meshes, JArr(<< >>)),
                    Member(Str_geometries, JArr(<< >>)),
                    Member(Str_materials, JArr(<< >>)),
                    Member(Str_textures, JArr(<< >>)) >>),
   btoc |-> << >>,
   console |-> << >>]

\* this.btoc.setBinary(name, binary)
setBinary(W, name, binary) ==
  [W EXCEPT !.btoc = MapSet(@, [name |-> name, bytes |-> binary]),
            !.console = @ \o ConsoleAssert(~MapHas(W.btoc, name),
                                           "assert: !this.entries.has(name)")]

\* addMesh(name, geometries, materials): the writer and the returned id.
addMesh(W, name, geometryIds, materialIds) ==
  [W |-> [W EXCEPT !.data = push(@, Str_meshes,
                     JObj(<< Member(Str_name, JStr(name)),
                             Member(Str_geometries, JArr([i \in 1..Len(geometryIds) |->
                                                            JNum(geometryIds[i])])),
                             Member(Str_materials, JArr([i \in 1..Len(materialIds) |->
                                                           JNum(materialIds[i])])) >>))],
   id |-> Len(get(W.data, Str_meshes).a)]

\* A getNextGeometryId that counts from one.
getNextGeometryIdFromOne(W) == Len(get(W.data, Str_geometries).a) + 1

getNextGeometryId(W) == Len(get(W.data, Str_geometries).a)

\* addGeometry(attributes), attributes a list of [name, type, isNormalized?]
addGeometry(W, attributes) ==
  [W EXCEPT !.data = push(@, Str_geometries,
                          JObj(<< Member(Str_attributes, JArr(attributes)) >>))]

addIndexBuffer(W, geometryId, numbers) ==
  setBinary(W, getIndicesBufferName(geometryId), Uint16Bytes(numbers))

addVertexBuffer(W, geometryId, attributeName, type, numbers) ==
  LET binaryName == getVertexBufferName(geometryId, attributeName)
  IN IF isSupportedIntType(type)
     THEN setBinary(W, binaryName, Int32Bytes(numbers))
     ELSE setBinary([W EXCEPT !.console = @ \o ConsoleAssert(isSupportedFloatType(type),
                                                             "assert: invalid type")],
                    binaryName, Float32Bytes(numbers))

\* addMaterial(shaderName, uniforms): uniforms is a Map given as its entries
\* [name, value] in order.
RECURSIVE uniformObject(_, _, _)
uniformObject(uniforms, i, obj) ==
  IF i > Len(uniforms) THEN obj
  ELSE uniformObject(uniforms, i + 1, put(obj, uniforms[i][1], uniforms[i][2]))

addMaterial(W, shaderName, uniforms) ==
  [W |-> [W EXCEPT !.data = push(@, Str_materials,
                     JObj(<< Member(Str_shaderName, JStr(shaderName)),
                             Member(Str_uniforms,
                                    uniformObject(uniforms, 1, JObj(<< >>))) >>))],
   id |-> Len(get(W.data, Str_materials).a)]

addTexture(W, bytes, mimetype) ==
  LET id == Len(get(W.data, Str_textures).a)
      S == setBinary(W, getTextureBufferName(id), bytes)
  IN [W |-> [S EXCEPT !.data = push(@, Str_textures,
                                    JObj(<< Member(Str_mimetype, JStr(mimetype)) >>))],
      id |-> id]

\* finish(): JSON.stringify(this.data) stored by setText under "root".
finish(W) == setBinary(W, Str_root, encodeUTF8(stringify(W.data)))

\* ---- GltfToBtocConverter
\* A glTF primitive: its indices, if it has any, and its attributes
\* [name, type, data, isNormalized] with the names already normalized.
Primitive(hasIndices, indices, attributes) ==
  [hasIndices |-> hasIndices, indices |-> indices, attributes |-> attributes]

\* The loop of _convertGeometry over the attributes from i on.
RECURSIVE convertAttributes(_, _, _, _)
convertAttributes(W, id, attributes, i) ==
  IF i > Len(attributes) THEN W
  ELSE convertAttributes(
         addVertexBuffer(W, id, attributes[i][1], attributes[i][2], attributes[i][3]),
         id, attributes, i + 1)

\* _convertGeometry(primitive): the writer, the returned id and the Error
\* thrown for a primitive without attributes, after its indices were added.
_convertGeometry(W, primitive) ==
  LET id == getNextGeometryId(W)
      W1 == IF primitive.hasIndices THEN addIndexBuffer(W, id, primitive.indices) ELSE W
      W2 == convertAttributes(W1, id, primitive.attributes, 1)
      attributes == [i \in 1..Len(primitive.attributes) |->
                       JArr(<< JStr(primitive.attributes[i][1]),
                               JNum(primitive.attributes[i][2]),
                               JBool(primitive.attributes[i][4]) >>)]
  IN IF Len(primitive.attributes) = 0
     THEN [W |-> W1, id |-> id, thrown |-> "Error: A submesh had no vertex attributes!"]
     ELSE [W |-> addGeometry(W2, attributes), id |-> id, thrown |-> "none"]

\* ---- BtocMeshReader, geometry
\* The result of a division that is not a whole number.
Fractional == -2

Quotient(a, b) == IF a % b = 0 THEN a \div b ELSE Fractional

\* The end of one round of the map callback of _loadGeometry: r is what
\* VertexBuffer.from returned for the attribute, count its number of vertices.
attributeLoaded(st, name, type, data, count, r) ==
  [bm |-> r.bm, c |-> r.c,
   vertexCount |-> IF st.vertexCount = -1 THEN count ELSE st.vertexCount,
   vertices |-> Append(st.vertices, << name, r.vertexBuffer >>),
   data |-> Append(st.data, [name |-> name, type |-> type.type, data |-> data])]

\* One round of the map callback of _loadGeometry for the bufferData that
\* gatherVertexBufferData returned: the count, the assertions and
\* VertexBuffer.from.
loadAttribute(st, name, type, data, count) ==
  attributeLoaded(st, name, type, data, count,
    vertexBufferFrom(st.bm,
      [st.c EXCEPT !.diag =
         @ \o (IF isSupportedIntType(type.type) THEN << >>
               ELSE ConsoleAssert(isSupportedFloatType(type.type), "assert: invalid type"))
           \o (IF st.vertexCount = -1 THEN << >>
               ELSE ConsoleAssert(st.vertexCount = count,
                      "assert: attributes differ in their number of vertices"))],
      type, FALSE))

\* gatherVertexBufferData(geometryId, name, type, isNormalized): the number[]
\* that the bytes of the attribute's blob hold.
gatherVertexBufferData(bytes, type) ==
  IF isSupportedIntType(type) THEN Int32Values(bytes) ELSE Float32Values(bytes)

\* The map callback of _loadGeometry for the attributes from i on; st holds
\* the bind machine, the context, vertexCount and the vertices and their data
\* so far.
RECURSIVE loadAttributes(_, _, _, _, _)
loadAttributes(entries, geometryId, attributes, i, st) ==
  IF i > Len(attributes.a) \/ st.c.thrown # "none" THEN st
  ELSE IF ~MapHas(entries, getVertexBufferName(geometryId, elem(attributes.a[i], 0).s))
  THEN [st EXCEPT !.c.thrown = "TypeError"]
  ELSE IF Len(entries[MapIndex(entries, getVertexBufferName(geometryId,
                                          elem(attributes.a[i], 0).s))].bytes) % 4 # 0
  THEN [st EXCEPT !.c.thrown = "RangeError"]
  ELSE loadAttributes(entries, geometryId, attributes, i + 1,
         loadAttribute(st, elem(attributes.a[i], 0).s,
           GlType(elem(attributes.a[i], 1).n, 1),
           gatherVertexBufferData(
             entries[MapIndex(entries, getVertexBufferName(geometryId,
                                         elem(attributes.a[i], 0).s))].bytes,
             elem(attributes.a[i], 1).n),
           Quotient(Len(entries[MapIndex(entries, getVertexBufferName(geometryId,
                                           elem(attributes.a[i], 0).s))].bytes) \div 4,
                    getElementCountOfGlType(elem(attributes.a[i], 1).n))))

\* A _loadGeometry that ended with an exception.
loadFailed(b, c, error) ==
  [bm |-> b, c |-> [c EXCEPT !.thrown = error], geometry |-> NoGeometry,
   indexList |-> << >>, data |-> << >>]

\* The return of _loadGeometry: g is what new Geometry(...) made.
loadReturn(ix, st, g) ==
  [bm |-> st.bm, c |-> [st.c EXCEPT !.diag = @ \o g.diag], geometry |-> g.geometry,
   indexList |-> ix.indexList, data |-> st.data]

\* The end of _loadGeometry: st is what the map over the attributes left.
loadConstruct(ix, st) ==
  IF st.c.thrown # "none" THEN loadFailed(st.bm, st.c, st.c.thrown)
  ELSE loadReturn(ix, st,
         Geometry(st.vertexCount, st.vertices,
                  IF ix.has THEN Len(ix.indexList) ELSE UNDEFINED, ix.buffer))

\* _loadGeometry after the indices: ix holds the bind machine, the context
\* and the index list and buffer, if the container has them.
loadVertices(ix, entries, geometry, geometryId) ==
  IF geometry.t # "obj" \/ get(geometry, Str_attributes).t # "arr"
  THEN loadFailed(ix.bm, ix.c, "TypeError")
  ELSE IF Len(get(geometry, Str_attributes).a) = 0
  THEN loadFailed(ix.bm, ix.c, "Error: A submesh had no vertex attributes!")
  ELSE loadConstruct(ix,
         loadAttributes(entries, geometryId, get(geometry, Str_attributes), 1,
                        [bm |-> ix.bm, c |-> ix.c, vertexCount |-> -1,
                         vertices |-> << >>, data |-> << >>]))

\* The index list of _loadGeometry and the buffer that createIndexBuffer
\* made of it.
loadedIndices(indexList, ib) ==
  [bm |-> ib.bm, c |-> ib.c, has |-> TRUE, indexList |-> indexList,
   buffer |-> ib.vertexBuffer.buffer]

\* _loadGeometry(geometryId) on the container's entries and the parsed scene:
\* the bind machine, the context, the Geometry and the number[] data its
\* buffers were made from.
_loadGeometry(b, c, entries, scene, geometryId) ==
  IF ~MapHas(entries, getIndicesBufferName(geometryId))
  THEN loadVertices([bm |-> b, c |-> c, has |-> FALSE, indexList |-> << >>, buffer |-> NULL],
                    entries, elem(get(scene, Str_geometries), geometryId), geometryId)
  ELSE IF Len(entries[MapIndex(entries, getIndicesBufferName(geometryId))].bytes) % 2 # 0
  THEN loadFailed(b, c, "RangeError")
  ELSE loadVertices(
         loadedIndices(
           Uint16Values(entries[MapIndex(entries, getIndicesBufferName(geometryId))].bytes),
           vertexBufferFrom(b, c, GlType(UNSIGNED_SHORT, 1), TRUE)),
         entries, elem(get(scene, Str_geometries), geometryId), geometryId)

\* ---- the codec's operations
Str_jpeg == << 105, 109, 97, 103, 101, 47, 106, 112, 101, 103 >>  \* "image/jpeg"

Str_weights == << 119, 101, 105, 103, 104, 116, 115 >>  \* "weights"

\* The primitives converted.  P1: four vertices of a vec3 float position with
\* the indices [0,1,2,0,2,3].  P2: no indices, three vertices of a vec2 float
\* position and an int joints.  P3: indices up to 65535 and a float weights
\* with the zeros, a subnormal, the infinities and NaN.  P0: indices and no
\* attribute.
PrimitiveOf(p) ==
  CASE p = "P1" ->
         Primitive(TRUE, << 0, 1, 2, 0, 2, 3 >>,
           << << Str_position, FLOAT_VEC3,
                 << Float32(0, 0, 0), Float32(0, 0, 0), Float32(0, 0, 0),
                    Float32(0, 127, 0), Float32(0, 0, 0), Float32(1, 126, 0),
                    Float32(0, 127, 0), Float32(0, 127, 4194304), Float32(0, 123, 5033165),
                    Float32(1, 128, 8388607), Float32(0, 254, 8388607), Float32(0, 1, 256) >>,
                 FALSE >> >>)
    [] p = "P2" ->
         Primitive(FALSE, << >>,
           << << Str_position, FLOAT_VEC2,
                 << Float32(0, 0, 0), Float32(0, 127, 0), Float32(0, 128, 65536),
                    Float32(1, 127, 0), Float32(0, 126, 255), Float32(1, 130, 1) >>,
                 FALSE >>,
              << Str_joints, INT, << -1, 2147483647, -2147483647 >>, TRUE >> >>)
    [] p = "P3" ->
         Primitive(TRUE, << 65535, 256, 255 >>,
           << << Str_weights, FLOAT,
                 << Float32(1, 0, 0), Float32(0, 0, 1), Float32(0, 255, 0),
                    Float32(1, 255, 0), QuietNaN, Float32(0, 0, 0) >>,
                 FALSE >> >>)
    [] OTHER -> Primitive(TRUE, << 0, 1, 2 >>, << >>)

Primitives == { "P0", "P1", "P2", "P3" }

\* [bytes, mimetype] arguments tried for addTexture.
AddTextureInputs == { << << 137, 80, 78, 71 >>, Str_png >>, << << 255, 216 >>, Str_jpeg >> }

\* A call of the codec that is not a GL operation.
CodecStep(next, console, error, op) ==
  /\ codec' = next
  /\ diag' = console
  /\ calls' = << >>
  /\ thrown' = error
  /\ lastOp' = Op(op, NULL, "", "")
  /\ UNCHANGED << renderer, btoc, reader, graph, tree >>

\* The writer may still be called: a converter exists, no conversion threw
\* (GltfToBtocConverter.convert does not reach finish then) and the writer is
\* not finished.
Writing ==
  /\ codec.constructed
  /\ ~codec.failed
  /\ ~codec.finished
  /\ codec.writerCalls < MaxWriterCalls

\* new GltfToBtocConverter(...), which makes the BtocMeshWriter.
NewConverter ==
  /\ ~codec.constructed
  /\ CodecStep([codec EXCEPT !.constructed = TRUE, !.writer = NewBtocMeshWriter],
               << >>, "none", "new GltfToBtocConverter")

\* converter._convertGeometry(primitive)
ConvertGeometry(p) ==
  LET r == _convertGeometry([codec.writer EXCEPT !.console = << >>], PrimitiveOf(p))
      record == elem(get(r.W.data, Str_geometries), Len(get(r.W.data, Str_geometries).a) - 1)
  IN /\ Writing
     /\ CodecStep([codec EXCEPT
                     !.writer = r.W,
                     !.writerCalls = @ + 1,
                     !.failed = r.thrown # "none",
                     !.returned = IF r.thrown # "none" THEN @
                                  ELSE Append(@, [kind |-> Str_geometries, id |-> r.id, bytes |-> << >>,
                                                  record |-> record]),
                     !.written = IF r.thrown # "none" THEN @
                                 ELSE Append(@, [id |-> r.id, primitive |-> p])],
                  r.W.console, r.thrown, "_convertGeometry")

\* writer.addTexture(bytes, mimetype)
AddTexture(bytes, mimetype) ==
  LET r == addTexture([codec.writer EXCEPT !.console = << >>], bytes, mimetype)
  IN /\ Writing
     /\ CodecStep([codec EXCEPT
                     !.writer = r.W,
                     !.writerCalls = @ + 1,
                     !.returned = Append(@, [kind |-> Str_textures, id |-> r.id,
                                             bytes |-> bytes,
                                             record |-> JObj(<< Member(Str_mimetype,
                                                                       JStr(mimetype)) >>)])],
                  r.W.console, "none", "addTexture")

\* writer.addMaterial("phong", new Map([["color", [1, 0]]]))
AddMaterial ==
  LET uniforms == << << Str_color, JArr(<< JNum(1), JNum(0) >>) >> >>
      r == addMaterial([codec.writer EXCEPT !.console = << >>], Str_phong, uniforms)
  IN /\ Writing
     /\ CodecStep([codec EXCEPT
                     !.writer = r.W,
                     !.writerCalls = @ + 1,
                     !.returned = Append(@, [kind |-> Str_materials, id |-> r.id, bytes |-> << >>,
                                             record |-> JObj(<< Member(Str_shaderName, JStr(Str_phong)),
                                                                Member(Str_uniforms,
                                                                  JObj(<< Member(Str_color,
                                                                    JArr(<< JNum(1), JNum(0) >>)) >>)) >>)])],
                  r.W.console, "none", "addMaterial")

\* writer.addMesh(name, [0], [0])
AddMesh(name) ==
  LET r == addMesh([codec.writer EXCEPT !.console = << >>], name, << 0 >>, << 0 >>)
  IN /\ Writing
     /\ CodecStep([codec EXCEPT
                     !.writer = r.W,
                     !.writerCalls = @ + 1,
                     !.returned = Append(@, [kind |-> Str_meshes, id |-> r.id, bytes |-> << >>,
                                             record |-> JObj(<< Member(Str_name, JStr(name)),
                                                                Member(Str_geometries, JArr(<< JNum(0) >>)),
                                                                Member(Str_materials, JArr(<< JNum(0) >>)) >>)])],
                  r.W.console, "none", "addMesh")

\* converter.writer.finish(), the end of GltfToBtocConverter.convert
Finish ==
  LET W == finish([codec.writer EXCEPT !.console = << >>])
  IN /\ codec.constructed
     /\ ~codec.failed
     /\ ~codec.finished
     /\ CodecStep([codec EXCEPT !.writer = W, !.finished = TRUE], W.console, "none", "finish")

\* encodeAsBytes() of the finished container
Encode ==
  LET r == encodeAsBytes(codec.writer.btoc)
  IN /\ codec.finished
     /\ codec.file = << >>
     /\ CodecStep([codec EXCEPT !.file = r.result], r.diag, "none", "encodeAsBytes")

\* The head of BtocMeshReader.loadScene(bytes): BtocFile.from(bytes) and
\* new BtocMeshReader(btoc), whose JSON.parse may throw.
Read ==
  LET entries == _read(codec.file)
      text == IF MapHas(entries, Str_root)
              THEN decodeUTF8(entries[MapIndex(entries, Str_root)].bytes)
              ELSE << >>
      r == parse(text)
  IN /\ codec.file # << >>
     /\ ~codec.read
     /\ CodecStep(IF r.ok
                  THEN [codec EXCEPT !.read = TRUE, !.entries = entries, !.scene = r.v]
                  ELSE codec,
                  << >>, IF r.ok THEN "none" ELSE "SyntaxError", "new BtocMeshReader")

\* reader.loadGeometry(geometryId): getCachedOrCompute over _loadGeometry.
LoadGeometry(geometryId) ==
  LET cached == \E i \in 1..Len(codec.geometries) : codec.geometries[i].id = geometryId
      r == _loadGeometry(bm, Ctx(gpu, << >>), codec.entries, codec.scene, geometryId)
  IN /\ codec.read
     /\ gpu.bufferCount + 2 <= MaxGeometryBuffers
     /\ IF cached
        THEN /\ calls' = << >>
             /\ diag' = << >>
             /\ thrown' = "none"
             /\ UNCHANGED << bm, gpu, codec >>
        ELSE /\ bm' = r.bm
             /\ gpu' = r.c.gpu
             /\ calls' = r.c.calls
             /\ diag' = r.c.diag
             /\ thrown' = r.c.thrown
             /\ codec' = IF r.c.thrown # "none" THEN codec
                         ELSE [codec EXCEPT !.geometries =
                                 Append(@, [id |-> geometryId, geometry |-> r.geometry,
                                            indexList |-> r.indexList, data |-> r.data])]
     /\ lastOp' = Op("loadGeometry", NULL, "", IF cached THEN "cached" ELSE "computed")
     /\ UNCHANGED << defaultUniformSources, materials, maps, mutations, btoc, reader, graph, tree >>

\* A scene converted, finished, encoded, read and its geometries loaded.
NextCodec ==
  \/ NewConverter
  \/ \E p \in Primitives : ConvertGeometry(p)
  \/ \E in \in AddTextureInputs : AddTexture(in[1], in[2])
  \/ AddMaterial
  \/ AddMesh(Str_body)
  \/ Finish
  \/ Encode
  \/ Read
  \/ \E id \in 0..MaxWriterCalls : LoadGeometry(id)

SpecCodec == InitBind /\ [][NextCodec]_vars

\* ======================================================= BtocMeshReader
\* The scene description a BtocMeshReader is constructed from (SceneData,
\* the JSON in the container's "root" entry).  Ids are the 0-based array
\* indices of the source; a node's mesh is UNDEFINED when the JSON has none,
\* and a material uniform's texture is UNDEFINED when its JSON value is a
\* number[] and not a texture id.
Ids(array) == 0 .. (Len(array) - 1)
At(array, i) == array[i + 1]

NodeData(name, mesh, children) == [name |-> name, mesh |-> mesh, children |-> children]
MeshData(geometries, mats) == [geometries |-> geometries, materials |-> mats]
MaterialData(shaderName, uniforms) == [shaderName |-> shaderName, uniforms |-> uniforms]
TextureUniform(name, textureId) == [name |-> name, texture |-> textureId]
ArrayUniform(name) == [name |-> name, texture |-> UNDEFINED]

\* Two sibling nodes that use the same mesh.
SceneShared ==
  [ nodes |-> NodeData("root", UNDEFINED,
                << NodeData("a", 0, << >>), NodeData("b", 0, << >>) >>),
    meshes |-> << MeshData(<< 0 >>, << 0 >>) >>,
    geometries |-> << "g0" >>,
    materials |-> << MaterialData("phong", << TextureUniform("color_texture", 0),
                                              ArrayUniform("color") >>) >>,
    textures |-> << "image/png" >> ]

\* A root with a mesh of two submeshes that use one material, a child with
\* a mesh and a child of its own, and a second child without a mesh; the two
\* materials use the same texture.
SceneDeep ==
  [ nodes |-> NodeData("root", 0,
                << NodeData("a", 1, << NodeData("c", UNDEFINED, << >>) >>),
                   NodeData("b", UNDEFINED, << >>) >>),
    meshes |-> << MeshData(<< 0, 1 >>, << 0, 0 >>), MeshData(<< 0 >>, << 1 >>) >>,
    geometries |-> << "g0", "g1" >>,
    materials |-> << MaterialData("phong", << TextureUniform("color_texture", 0) >>),
                     MaterialData("nonexistent", << TextureUniform("mask_texture", 0) >>) >>,
    textures |-> << "image/png" >> ]

\* Three children without meshes.
SceneWide ==
  [ nodes |-> NodeData("root", UNDEFINED,
                << NodeData("a", UNDEFINED, << >>), NodeData("b", UNDEFINED, << >>),
                   NodeData("c", UNDEFINED, << >>) >>),
    meshes |-> << >>,
    geometries |-> << >>,
    materials |-> << >>,
    textures |-> << >> ]

\* A single node with a mesh without submeshes.
SceneSingle ==
  [ nodes |-> NodeData("only", 0, << >>),
    meshes |-> << MeshData(<< >>, << >>) >>,
    geometries |-> << >>,
    materials |-> << >>,
    textures |-> << >> ]

Scenes == { SceneShared, SceneDeep, SceneWide, SceneSingle }

\* A loadBranch call is named by the path of its NodeData from the root:
\* << >> is the root, << 2, 1 >> the first child of the second child.
RECURSIVE NodeAt(_, _)
NodeAt(node, path) ==
  IF path = << >> THEN node ELSE NodeAt(node.children[Head(path)], Tail(path))

RECURSIVE Paths(_)
Paths(node) ==
  { << >> } \cup
  UNION { { << i >> \o q : q \in Paths(node.children[i]) } : i \in 1 .. Len(node.children) }

\* An async call that has not been made.
NoTask == [status |-> "none", stack |-> << >>, value |-> UNDEFINED]
\* A Node3D that has not been constructed.
NoNode == [class |-> "none", name |-> "", children |-> << >>, parent |-> << >>,
           mesh |-> UNDEFINED]

\* new BtocMeshReader(btoc): the four caches are empty maps.  runs counts
\* the calls of _loadMesh, _loadMaterial and _loadTexture per id; heap holds
\* the Mesh, Material, Texture and Geometry objects in creation order, an
\* object's identity being its position; tasks are the loadBranch calls with
\* the stack of async functions each is suspended in; nodes are the Node3D
\* objects, the one of a loadBranch call under the call's path.
NewBtocMeshReader(scene) ==
  [ constructed |-> TRUE,
    shaderConstructors |-> {},
    fallbackMaterial |-> NoMaterial,
    returned |-> << >>,
    console |-> << >>,
    scene |-> scene,
    meshes |-> [i \in Ids(scene.meshes) |-> UNDEFINED],
    textures |-> [i \in Ids(scene.textures) |-> UNDEFINED],
    geometries |-> [i \in Ids(scene.geometries) |-> UNDEFINED],
    materials |-> [i \in Ids(scene.materials) |-> UNDEFINED],
    runs |-> [ meshes |-> [i \in Ids(scene.meshes) |-> 0],
               materials |-> [i \in Ids(scene.materials) |-> 0],
               textures |-> [i \in Ids(scene.textures) |-> 0] ],
    heap |-> << >>,
    tasks |-> [p \in Paths(scene.nodes) |-> NoTask],
    nodes |-> [p \in Paths(scene.nodes) |-> NoNode] ]

\* ---- the stack of one loadBranch call
Frame(fn, cache, id) == [fn |-> fn, cache |-> cache, id |-> id, i |-> 0,
                         acc |-> << >>, geometry |-> UNDEFINED]
Top(R, p) == R.tasks[p].stack[Len(R.tasks[p].stack)]
Push(R, p, frame) == [R EXCEPT !.tasks[p].stack = Append(@, frame)]
Pop(R, p) == [R EXCEPT !.tasks[p].stack = SubSeq(@, 1, Len(@) - 1)]
SetTop(R, p, frame) == [R EXCEPT !.tasks[p].stack[Len(R.tasks[p].stack)] = frame]

\* The promise the top frame awaits is resolved with value: the frame's
\* continuation is queued and runs in a later turn of the event loop.
Await(R, p, value) ==
  [R EXCEPT !.tasks[p].status = "ready", !.tasks[p].value = value]

\* new Mesh / Material / Texture / Geometry
New(R, class, id, parts) ==
  [R EXCEPT !.heap = Append(@, [class |-> class, id |-> id, parts |-> parts])]
Newest(R) == Len(R.heap)

CountRun(R, cache, id) == [R EXCEPT !.runs[cache][id] = @ + 1]

\* ---- util/cache.ts and the loaders
\* getCachedOrCompute(geometryId, this.geometries, _loadGeometry): synchronous.
loadGeometry(R, geometryId) ==
  IF R.geometries[geometryId] # UNDEFINED
  THEN R
  ELSE LET G == New(R, "Geometry", geometryId, << >>)
       IN [G EXCEPT !.geometries[geometryId] = Newest(G)]

\* _loadTexture: Texture.fromEncodedImage decodes the image asynchronously.
_loadTexture(R, p, textureId) ==
  LET C == CountRun(R, "textures", textureId)
      S == Push(C, p, Frame("fromEncodedImage", "textures", textureId))
  IN [S EXCEPT !.tasks[p].status = "decoding"]

RECURSIVE getCachedOrComputeAsync(_, _, _, _)

\* A constructMaterial that returns a copy of the fallback material.
constructMaterialCopyingFallback(R, shaderName, materialId, uniforms) ==
  LET M == New(R, "Material", materialId, uniforms)
      F == New([R EXCEPT !.console = @ \o << "log: No shader constructor was registered" >>
                                       \o ConsoleAssert(R.fallbackMaterial # NoMaterial,
                                                         "assert: fallbackMaterial !== null")],
               "Material", UNDEFINED, << >>)
      registered == shaderName \in R.shaderConstructors
      value == IF registered THEN Newest(M)
               ELSE IF R.fallbackMaterial = NoMaterial THEN NoMaterial ELSE Newest(F)
  IN [R |-> [(IF registered THEN M ELSE F) EXCEPT
               !.returned = Append(@, [shaderName |-> shaderName, id |-> materialId,
                                       registered |-> registered,
                                       fallbackMaterial |-> R.fallbackMaterial,
                                       value |-> value])],
      value |-> value]

\* constructMaterial(shaderName, uniforms): a registered constructor builds a
\* new Material from the uniforms; without one the call logs and returns
\* fallbackMaterial, null when none was set.  The call and its result are
\* recorded in `returned`.
constructMaterial(R, shaderName, materialId, uniforms) ==
  LET M == New(R, "Material", materialId, uniforms)
      F == [R EXCEPT !.console = @ \o << "log: No shader constructor was registered" >>
                                      \o ConsoleAssert(R.fallbackMaterial # NoMaterial,
                                                        "assert: fallbackMaterial !== null")]
      registered == shaderName \in R.shaderConstructors
      value == IF registered THEN Newest(M) ELSE R.fallbackMaterial
  IN [R |-> [(IF registered THEN M ELSE F) EXCEPT
               !.returned = Append(@, [shaderName |-> shaderName, id |-> materialId,
                                       registered |-> registered,
                                       fallbackMaterial |-> R.fallbackMaterial,
                                       value |-> value])],
      value |-> value]

\* The for-in loop of _loadMaterial from uniform number Top.i on, up to its
\* next await or its return.
RECURSIVE materialLoop(_, _)
materialLoop(R, p) ==
  LET f == Top(R, p)
      uniforms == At(R.scene.materials, f.id).uniforms
  IN IF f.i < Len(uniforms)
     THEN IF At(uniforms, f.i).texture # UNDEFINED
          THEN getCachedOrComputeAsync(R, p, "textures", At(uniforms, f.i).texture)
          ELSE materialLoop(SetTop(R, p, [f EXCEPT !.i = @ + 1, !.acc = Append(@, 0)]), p)
     ELSE LET M == constructMaterial(Pop(R, p),
                                     At(R.scene.materials, f.id).shaderName, f.id, f.acc)
          IN Await(M.R, p, M.value)

_loadMaterial(R, p, materialId) ==
  materialLoop(Push(CountRun(R, "materials", materialId), p,
                    Frame("_loadMaterial", "materials", materialId)), p)

\* The loop of _loadMesh from submesh number Top.i on, up to its next await
\* or its return.
meshLoop(R, p) ==
  LET f == Top(R, p)
      mesh == At(R.scene.meshes, f.id)
  IN IF f.i < Len(mesh.geometries)
     THEN LET G == loadGeometry(R, At(mesh.geometries, f.i))
              geometry == G.geometries[At(mesh.geometries, f.i)]
          IN getCachedOrComputeAsync(SetTop(G, p, [f EXCEPT !.geometry = geometry]),
                                     p, "materials", At(mesh.materials, f.i))
     ELSE LET M == New(Pop(R, p), "Mesh", f.id, f.acc)
          IN Await(M, p, Newest(M))

_loadMesh(R, p, meshId) ==
  meshLoop(Push(CountRun(R, "meshes", meshId), p, Frame("_loadMesh", "meshes", meshId)), p)

\* getCachedOrComputeAsync(input, cache, compute) up to its await: a cached
\* value is returned, and otherwise compute starts and the cache stays as it
\* is until the continuation after `await compute(input)` runs.
getCachedOrComputeAsync(R, p, cache, input) ==
  LET cached == R[cache][input]
      S == Push(R, p, Frame("getCachedOrComputeAsync", cache, input))
  IN IF cached # UNDEFINED
     THEN Await(R, p, cached)
     ELSE CASE cache = "meshes" -> _loadMesh(S, p, input)
            [] cache = "materials" -> _loadMaterial(S, p, input)
            [] cache = "textures" -> _loadTexture(S, p, input)

\* Node.addChild(node, index = -1) on nodes outside a scene tree.
addChild(R, p, child, index) ==
  [R EXCEPT !.nodes[p].children = spliceInsert(@, index, child),
            !.nodes[child].parent = << p >>]

RECURSIVE addChildren(_, _, _)
addChildren(R, p, branches) ==
  IF branches = << >>
  THEN R
  ELSE addChildren(addChild(R, p, Head(branches), -1), p, Tail(branches))

\* loadBranch(node) up to its first await; node.children.map(...) starts the
\* loadBranch call of every child, in order, before Promise.all is awaited.
RECURSIVE loadBranch(_, _)
RECURSIVE startChildren(_, _, _)
startChildren(R, p, i) ==
  IF i > Len(NodeAt(R.scene.nodes, p).children)
  THEN R
  ELSE startChildren(loadBranch(R, p \o << i >>), p, i + 1)

loadChildren(R, p) ==
  startChildren([R EXCEPT !.tasks[p].status = "joining"], p, 1)

loadBranch(R, p) ==
  LET node == NodeAt(R.scene.nodes, p)
      class == IF node.mesh # UNDEFINED THEN "MeshNode3D" ELSE "Node3D"
      S == [R EXCEPT !.nodes[p] = [NoNode EXCEPT !.class = class, !.name = node.name],
                     !.tasks[p] = [NoTask EXCEPT !.stack = << Frame("loadBranch", "", 0) >>]]
  IN IF node.mesh # UNDEFINED
     THEN getCachedOrComputeAsync(S, p, "meshes", node.mesh)
     ELSE loadChildren(S, p)

\* The continuation of the top frame of call p with the awaited value.
resume(R, p) ==
  LET f == Top(R, p)
      value == R.tasks[p].value
  IN CASE f.fn = "getCachedOrComputeAsync" ->
            Await([Pop(R, p) EXCEPT ![f.cache][f.id] = value], p, value)
       [] f.fn = "_loadMaterial" ->
            materialLoop(SetTop(R, p, [f EXCEPT !.i = @ + 1, !.acc = Append(@, value)]), p)
       [] f.fn = "_loadMesh" ->
            meshLoop(SetTop(R, p, [f EXCEPT !.i = @ + 1,
                                            !.acc = Append(@, << f.geometry, value >>)]), p)
       [] f.fn = "loadBranch" ->
            loadChildren([R EXCEPT !.nodes[p].mesh = value], p)

\* ---- operations
ReaderStep(next, op, path) ==
  /\ reader' = [next EXCEPT !.console = << >>]
  /\ diag' = next.console
  /\ calls' = << >>
  /\ thrown' = "none"
  /\ lastOp' = Op(op, NULL, "", path)
  /\ UNCHANGED << renderer, btoc, graph, codec, tree >>

\* new BtocMeshReader(btoc) on a container whose root entry is scene.
ConstructReader(scene) ==
  /\ ~reader.constructed
  /\ ReaderStep([NewBtocMeshReader(scene) EXCEPT
                   !.shaderConstructors = reader.shaderConstructors,
                   !.fallbackMaterial = reader.fallbackMaterial,
                   !.heap = reader.heap],
                "BtocMeshReader", "")

\* registerShaderType(shaderType, constructor)
RegisterShaderType(shaderType) ==
  /\ shaderType \notin reader.shaderConstructors
  /\ ReaderStep([reader EXCEPT !.shaderConstructors = @ \cup {shaderType}],
                "registerShaderType", "")

\* setFallbackMaterial(new Material(...)), called once.
SetFallbackMaterial ==
  /\ reader.fallbackMaterial = NoMaterial
  /\ LET F == New(reader, "Material", UNDEFINED, << >>)
     IN ReaderStep([F EXCEPT !.fallbackMaterial = Newest(F)], "setFallbackMaterial", "")

\* loader.loadScene(), up to the first await of every call it starts.
LoadScene ==
  /\ reader.constructed
  /\ reader.tasks[<< >>].status = "none"
  /\ ReaderStep(loadBranch(reader, << >>), "loadScene", "")

\* The image of a texture is decoded: fromEncodedImage's promise resolves
\* with a new Texture.
ImageDecoded(p) ==
  /\ reader.constructed
  /\ p \in DOMAIN reader.tasks
  /\ reader.tasks[p].status = "decoding"
  /\ LET T == New(Pop(reader, p), "Texture", Top(reader, p).id, << >>)
     IN ReaderStep(Await(T, p, Newest(T)), "fromEncodedImage", "")

\* A queued continuation of call p runs up to the call's next await.
Continue(p) ==
  /\ reader.constructed
  /\ p \in DOMAIN reader.tasks
  /\ reader.tasks[p].status = "ready"
  /\ ReaderStep(resume(reader, p), "continue", Top(reader, p).fn)

\* Promise.all of call p resolves once every child's loadBranch has returned,
\* with the branches in the order of node.children; the call adds them and
\* returns its node.
ChildPaths(R, p) == [i \in 1 .. Len(NodeAt(R.scene.nodes, p).children) |-> p \o << i >>]
Join(p) ==
  /\ reader.constructed
  /\ p \in DOMAIN reader.tasks
  /\ reader.tasks[p].status = "joining"
  /\ \A i \in 1 .. Len(ChildPaths(reader, p)) :
        reader.tasks[ChildPaths(reader, p)[i]].status = "done"
  /\ LET A == addChildren(reader, p, ChildPaths(reader, p))
     IN ReaderStep([A EXCEPT !.tasks[p].status = "done"], "loadBranch", "return")

AllPaths == UNION { Paths(scene.nodes) : scene \in Scenes }

NextReader ==
  \/ \E scene \in Scenes : ConstructReader(scene)
  \/ RegisterShaderType("phong")
  \/ SetFallbackMaterial
  \/ LoadScene
  \/ \E p \in AllPaths : ImageDecoded(p)
  \/ \E p \in AllPaths : Continue(p)
  \/ \E p \in AllPaths : Join(p)

SpecReader == InitBind /\ [][NextReader]_vars

\* ========================================================== lambertian3D
\* A material with the console output of the calls made on it.
Constructed(material) == [material |-> material, console |-> << >>]

\* Material.setUniform(name, value) on a material that is being built.
setUniform(e, name, value, i) ==
  IF i = 0
  THEN [e EXCEPT !.console = Append(@, "warn: Uniform does not exist")]
  ELSE [material |-> [e.material EXCEPT
                        !.uniforms[i] = [@ EXCEPT !.value = UniformValue(value),
                                                  !.valueSource = FromMaterial,
                                                  !.hasBeenWritten = TRUE],
                        !.hasChangedSinceLastBound = TRUE],
        console |-> e.console
                    \o validateUniformWithValue(
                         [e.material.uniforms[i] EXCEPT !.value = UniformValue(value)])]

\* Material.from(shader, ...uniforms): the loop over the [name, value] pairs.
RECURSIVE Material_fromLoop(_, _)
Material_fromLoop(e, uniforms) ==
  IF uniforms = << >> THEN e
  ELSE Material_fromLoop(setUniform(e, Head(uniforms)[1], Head(uniforms)[2],
                                    MapIndex(e.material.uniforms, Head(uniforms)[1])),
                         Tail(uniforms))

Material_from(shader, registry, uniforms) ==
  Material_fromLoop(Constructed(NewMaterial(shader, registry)), uniforms)

\* The default sources initLambertian3D adds, in the order of its two loops.
lambertianDefaultSources ==
  [k \in 1..(3 * PointLightsMax) |->
     << "pointLights[" \o ToString((k - 1) \div 3) \o "]."
          \o << "position", "radius", "color" >>[((k - 1) % 3) + 1],
        FromEnvironment >>]
  \o [k \in 1..(2 * DirectionalLightsMax) |->
        << "directionalLights[" \o ToString((k - 1) \div 2) \o "]."
             \o << "direction", "color" >>[((k - 1) % 2) + 1],
           FromEnvironment >>]

\* vec3(0.47, 0.28, 0.64), in hundredths.
PURPLE == NumberArray(<< 47, 28, 64 >>)

\* No Material object made yet under this name.
NotConstructed == [shader |-> NULL, uniforms |-> << >>, hasChangedSinceLastBound |-> FALSE]

\* initLambertian3D(): the fallback material is built and set, the "lit"
\* constructor registered, and then the default sources are added.
InitLambertian3D ==
  LET fallback == Material_from("LF", defaultUniformSources, << << "color", PURPLE >> >>)
      F == New(reader, "Material", UNDEFINED, << >>)
  IN /\ Len(reader.heap) < MaxInitCalls
     /\ materials' = [materials EXCEPT !["fallback"] = fallback.material]
     /\ reader' = [F EXCEPT !.fallbackMaterial = Newest(F),
                            !.shaderConstructors = @ \cup {"lit"}]
     /\ defaultUniformSources' = setDefaultSources(defaultUniformSources,
                                                   lambertianDefaultSources)
     /\ diag' = fallback.console
     /\ calls' = << >>
     /\ thrown' = "none"
     /\ lastOp' = Op("initLambertian3D", NULL, "", "")
     /\ UNCHANGED << maps, bm, gpu, mutations, btoc, graph, codec, tree >>

\* The constructor registered for "lit", called with the uniforms of a
\* material record.
LitConstructor(args) ==
  LET lit == Material_from(IF \E i \in 1..Len(args) : args[i][1] = "color_texture"
                           THEN "LT" ELSE "LF",
                           defaultUniformSources, args)
  IN /\ "lit" \in reader.shaderConstructors
     /\ materials' = [materials EXCEPT !["lit"] = lit.material]
     /\ diag' = lit.console
     /\ calls' = << >>
     /\ thrown' = "none"
     /\ lastOp' = Op("lit", NULL, "", "")
     /\ UNCHANGED << outside, defaultUniformSources, maps, bm, gpu, mutations >>

\* Uniform lists of the material records that reach the constructor.
LitInputs ==
  { << >>,
    << << "color", NumberArray(<< 1, 0, 0 >>) >> >>,
    << << "color_texture", TextureValue("T1") >> >>,
    << << "color", NumberArray(<< 1, 0, 0 >>) >>, << "color_texture", TextureValue("T1") >> >> }

\* The default sources the constructor of SceneTree3D adds.
SceneTree3DSources ==
  << << "local_to_global", FromInstance >>, << "local_to_clip", FromInstance >> >>

LambertianUniformNames ==
  { LambertianUniforms(s)[i].name : s \in LambertianShaders,
                                    i \in 1..(3 + 2 * DirectionalLightsMax + 3 * PointLightsMax) }

\* Nothing registered and no material made; a scene tree may be constructed
\* before or after initLambertian3D.
InitLambertian ==
  /\ defaultUniformSources = [n \in LambertianUniformNames |-> UNDEFINED]
  /\ materials = [m \in {"fallback", "lit"} |-> NotConstructed]
  /\ maps = [x \in EnvMaps \cup InstMaps |-> NewUniformMap]
  /\ bm = NewBindMachine
  /\ gpu = NewGpu
  /\ calls = << >>
  /\ diag = << >>
  /\ thrown = "none"
  /\ lastOp = Op("init", NULL, "", "")
  /\ mutations = 0
  /\ btoc = NewBtoc
  /\ reader = NoReader
  /\ graph = NoGraph
  /\ codec = NoCodec
  /\ tree = NoTree

\* The materials are made and their surface color is set; a scene tree is
\* constructed at some point.
NextLambertian ==
  \/ InitLambertian3D
  \/ \E args \in LitInputs : LitConstructor(args)
  \/ AddDefaultUniformSources(SceneTree3DSources)
  \/ \E m \in {"fallback", "lit"}, value \in {PURPLE, NumberArray(<< 0, 1, 0 >>)} :
       /\ materials[m].shader # NULL
       /\ MaterialSetUniform(m, "color", value)

SpecLambertian == InitLambertian /\ [][NextLambertian]_vars

\* =============================================================== nodes
\* A Matrix4 that scales and translates along x: x -> s * x + t.
Transform(s, t) == [s |-> s, t |-> t]
\* Matrix4.identity
TransformIdentity == Transform(1, 0)
\* Matrix.mult: the matrix product this * b.
mult(a, b) == Transform(a.s * b.s, a.s * b.t + a.t)

\* Array.prototype.splice(start, 1): a negative start counts from the end.
spliceRemove(array, start) ==
  LET len == Len(array)
      actualStart == IF start < 0
                     THEN (IF len + start < 0 THEN 0 ELSE len + start)
                     ELSE (IF start > len THEN len ELSE start)
  IN SubSeq(array, 1, actualStart) \o SubSeq(array, actualStart + 2, len)

\* Array.prototype.findIndex(n => n === item): zero-based, -1 when absent.
findIndex(array, item) ==
  IF \E i \in 1..Len(array) : array[i] = item
  THEN (CHOOSE i \in 1..Len(array) :
          array[i] = item /\ \A j \in 1..(i - 1) : array[j] # item) - 1
  ELSE -1

\* new Node(name), new Node3D(name), new PointLight3D(name), ...: no parent
\* (0), no tree, both transforms the identity.
NewNode(kind) == [kind |-> kind, parent |-> 0, children |-> << >>, tree |-> FALSE,
                  transform |-> TransformIdentity,
                  globalTransform |-> TransformIdentity]

\* node instanceof Node3D
instanceofNode3D(node) == node.kind # "Node"

\* What a call works on: the objects, the console and the exception that
\* ended the call.  "hang" stands for a loop that never ends.
Work(t) == [nodes |-> t.nodes, pointLights |-> t.pointLights,
            directionalLights |-> t.directionalLights,
            console |-> << >>, error |-> "none"]

\* More stack frames than there are objects: the recursion runs in a cycle
\* and ends in a RangeError.
StackDepth(r) == Len(r.nodes) + 1

\* Node3D.tryGetParentNode3D(): the loop over node.parent; 0 is undefined and
\* -1 a loop that runs in a cycle of plain Nodes.
RECURSIVE nearestNode3D(_, _, _)
nearestNode3D(ns, node, steps) ==
  IF node = 0 THEN 0
  ELSE IF instanceofNode3D(ns[node]) THEN node
  ELSE IF steps = 0 THEN -1
  ELSE nearestNode3D(ns, ns[node].parent, steps - 1)

tryGetParentNode3D(ns, id) == nearestNode3D(ns, ns[id].parent, Len(ns))

\* Node3D.afterTransformChanged(), depth frames of the stack left.
RECURSIVE afterTransformChanged(_, _, _)
RECURSIVE afterTransformChangedChildren(_, _, _, _)
afterTransformChangedFrom(r, id, parent, depth) ==
  IF parent < 0 THEN [r EXCEPT !.error = "hang"]
  ELSE afterTransformChangedChildren(
         [r EXCEPT !.nodes[id].globalTransform =
            IF parent > 0
            THEN mult(r.nodes[id].transform, r.nodes[parent].globalTransform)
            ELSE r.nodes[id].transform],
         id, 1, depth - 1)

afterTransformChanged(r, id, depth) ==
  IF r.error # "none" THEN r
  ELSE IF depth = 0 THEN [r EXCEPT !.error = "RangeError"]
  ELSE afterTransformChangedFrom(r, id, tryGetParentNode3D(r.nodes, id), depth)

afterTransformChangedChildren(r, id, i, depth) ==
  IF r.error # "none" \/ i > Len(r.nodes[id].children) THEN r
  ELSE afterTransformChangedChildren(
         IF instanceofNode3D(r.nodes[r.nodes[id].children[i]])
         THEN afterTransformChanged(r, r.nodes[id].children[i], depth)
         ELSE r,
         id, i + 1, depth)

\* Node._setParent and its override Node3D._setParent
_setParent(r, id, node) ==
  IF instanceofNode3D(r.nodes[id])
  THEN afterTransformChanged([r EXCEPT !.nodes[id].parent = node], id, StackDepth(r))
  ELSE [r EXCEPT !.nodes[id].parent = node]

\* PointLight3D._unhook / DirectionalLight3D._unhook; a plain Node3D has no
\* hooks.
_unhook(r, id) ==
  CASE r.nodes[id].kind = "PointLight3D" ->
         [r EXCEPT !.pointLights = spliceRemove(@, findIndex(@, id))]
    [] r.nodes[id].kind = "DirectionalLight3D" ->
         [r EXCEPT !.directionalLights = spliceRemove(@, findIndex(@, id))]
    [] OTHER -> r

\* PointLight3D._hook / DirectionalLight3D._hook
_hook(r, id) ==
  CASE r.nodes[id].kind = "PointLight3D" -> [r EXCEPT !.pointLights = Append(@, id)]
    [] r.nodes[id].kind = "DirectionalLight3D" ->
         [r EXCEPT !.directionalLights = Append(@, id)]
    [] OTHER -> r

\* Node._setTree(tree)
Node_setTree(r, id, inTree) ==
  [r EXCEPT !.nodes[id].tree = inTree,
            !.console = @ \o ConsoleAssert(~r.nodes[id].tree \/ ~inTree,
                                           "assert: this.tree === null || tree === null")]

\* Light3D._setTree(tree); the tree's Light3DExtension is initialised.
Light3D_setTree(r, id, inTree) ==
  LET unhooked == IF r.nodes[id].tree THEN _unhook(r, id) ELSE r
      set == Node_setTree(unhooked, id, inTree)
  IN IF inTree THEN _hook(set, id) ELSE set

_setTree(r, id, inTree) ==
  IF r.nodes[id].kind \in {"PointLight3D", "DirectionalLight3D"}
  THEN Light3D_setTree(r, id, inTree)
  ELSE Node_setTree(r, id, inTree)

\* node.recursively(node => node._setTree(tree)), depth frames of the stack
\* left.
RECURSIVE recursivelySetTree(_, _, _, _)
RECURSIVE recursivelySetTreeChildren(_, _, _, _, _)
recursivelySetTree(r, id, inTree, depth) ==
  IF r.error # "none" THEN r
  ELSE IF depth = 0 THEN [r EXCEPT !.error = "RangeError"]
  ELSE recursivelySetTreeChildren(_setTree(r, id, inTree), id, 1, inTree, depth - 1)

recursivelySetTreeChildren(r, id, i, inTree, depth) ==
  IF r.error # "none" \/ i > Len(r.nodes[id].children) THEN r
  ELSE recursivelySetTreeChildren(
         recursivelySetTree(r, r.nodes[id].children[i], inTree, depth),
         id, i + 1, inTree, depth)

\* Node.addChild(node) on the node this, with the default index -1.
addChildLinked(r, this, node) ==
  IF r.error # "none" \/ ~r.nodes[this].tree THEN r
  ELSE recursivelySetTree(r, node, TRUE, StackDepth(r))

Node_addChild(r, this, node) ==
  IF r.nodes[node].tree THEN [r EXCEPT !.error = "Error"]
  ELSE addChildLinked(
         _setParent([r EXCEPT !.nodes[this].children = spliceInsert(@, -1, node)],
                    node, this),
         this, node)

\* Node.removeChild(node) on the node this
removeChildFound(r, this, node, found) ==
  LET spliced == spliceRemove(r.nodes[this].children, found)
  IN recursivelySetTree(
       [r EXCEPT !.nodes[this].children = spliced,
                 !.nodes[node].parent = 0,
                 !.console = @ \o ConsoleAssert(found # -1,
                                   "assert: Node was not in children of its parent?!")
                               \o ConsoleAssert(\A i \in 1..Len(spliced) : spliced[i] # node,
                                   "assert: Child was in list twice?!")],
       node, FALSE, StackDepth(r))

Node_removeChild(r, this, node) ==
  IF r.nodes[node].parent # this THEN [r EXCEPT !.error = "Error"]
  ELSE removeChildFound(r, this, node, findIndex(r.nodes[this].children, node))

\* Node.remove()
Node_remove(r, this) ==
  IF r.nodes[this].parent = 0
  THEN [r EXCEPT !.error = "TypeError",
                 !.console = << "assert: Tried to remove a child which already has no parent!" >>]
  ELSE Node_removeChild(r, r.nodes[this].parent, this)

\* Node3D's setter of transform
setTransform(r, id, matrix) ==
  afterTransformChanged([r EXCEPT !.nodes[id].transform = matrix], id, StackDepth(r))

\* A call on the nodes returned, or threw, and left r; a call that never
\* returns leaves no state.
NodeStep(r, op) ==
  /\ r.error # "hang"
  /\ tree.calls < MaxNodeCalls
  /\ tree' = [nodes |-> r.nodes, pointLights |-> r.pointLights,
              directionalLights |-> r.directionalLights, calls |-> tree.calls + 1]
  /\ diag' = r.console
  /\ calls' = << >>
  /\ thrown' = r.error
  /\ lastOp' = Op(op, NULL, "", "")
  /\ UNCHANGED << renderer, btoc, reader, graph, codec >>

AddChildTo(this, node) == NodeStep(Node_addChild(Work(tree), this, node), "addChild")
RemoveChild(this, node) == NodeStep(Node_removeChild(Work(tree), this, node), "removeChild")
Remove(this) == NodeStep(Node_remove(Work(tree), this), "remove")
SetTransform(id, matrix) ==
  /\ instanceofNode3D(tree.nodes[id])
  /\ NodeStep(setTransform(Work(tree), id, matrix), "transform")

\* Plain Node objects, none of them in a scene tree except the root of a
\* SceneTree (node 1), and every addChild and removeChild/remove call on them.
InitNodes ==
  /\ InitObjects
  /\ defaultUniformSources = NoDefaults
  /\ tree = [NoTree EXCEPT !.nodes = [i \in 1..MaxNodes |->
                                        [NewNode("Node") EXCEPT !.tree = (i = 1)]]]

NodeIds == 1..MaxNodes

NextNodes ==
  \/ \E this, node \in NodeIds : AddChildTo(this, node)
  \/ \E this, node \in NodeIds : RemoveChild(this, node)
  \/ \E this \in NodeIds : Remove(this)

SpecNodes == InitNodes /\ [][NextNodes]_vars

\* Matrices assigned to Node3D.transform.
TransformInputs == { TransformIdentity, Transform(-1, 1), Transform(1, 2) }

\* this is the node or one of its descendants: the parent chain of this
\* passes through the node.
RECURSIVE IsInBranch(_, _, _, _)
IsInBranch(ns, node, this, steps) ==
  \/ this = node
  \/ /\ this # 0
     /\ steps > 0
     /\ IsInBranch(ns, node, ns[this].parent, steps - 1)

\* The call this.addChild(node) keeps the nodes a forest: the node has no
\* parent and this is not in its branch.
KeepsForest(this, node) ==
  /\ tree.nodes[node].parent = 0
  /\ ~IsInBranch(tree.nodes, node, this, Len(tree.nodes))

\* The root of a SceneTree3D (node 1, a Node3D) and new Node3D and plain
\* Node objects.
InitTransform ==
  /\ InitObjects
  /\ defaultUniformSources = NoDefaults
  /\ \E kinds \in [2..MaxNodes -> {"Node", "Node3D"}] :
       tree = [NoTree EXCEPT !.nodes =
                 [i \in 1..MaxNodes |->
                    IF i = 1 THEN [NewNode("Node3D") EXCEPT !.tree = TRUE]
                    ELSE NewNode(kinds[i])]]

\* Trees are built, taken apart and their nodes transformed.
NextTransform ==
  \/ \E this, node \in NodeIds : KeepsForest(this, node) /\ AddChildTo(this, node)
  \/ \E this, node \in NodeIds : RemoveChild(this, node)
  \/ \E this \in NodeIds : Remove(this)
  \/ \E id \in NodeIds, matrix \in TransformInputs : SetTransform(id, matrix)

SpecTransform == InitTransform /\ [][NextTransform]_vars

\* ============================================================== lights
\* A uniform map with the console output of the calls made on it.
WithConsole(map) == [map |-> map, console |-> << >>]

\* UniformMap.setFromTuple([name, type, value]) and setFromObject
setFromTuple(e, name, type, value) ==
  [map |-> [uniforms |-> MapSet(e.map.uniforms, UniformWithValue(name, type, value, 1)),
            hasChangedSinceLastBound |-> TRUE],
   console |-> e.console \o validateUniformWithValue(UniformWithValue(name, type, value, 1))]

\* UniformMap._setStruct(name, struct): the loop over Object.entries from
\* field k on; a field is a [type, value] tuple under its key.
RECURSIVE setStructFields(_, _, _, _)
setStructFields(e, name, fields, k) ==
  IF k > Len(fields) THEN e
  ELSE setStructFields(setFromTuple(e, name \o "." \o fields[k].key,
                                    fields[k].type, fields[k].value),
                       name, fields, k + 1)

\* UniformMap._setStruct(name, array): the loop over the array from index i
\* on, each element a struct.
RECURSIVE _setStruct(_, _, _, _)
_setStruct(e, name, array, i) ==
  IF i >= Len(array) THEN e
  ELSE _setStruct(setStructFields(e, name \o "[" \o ToString(i) \o "]", array[i + 1], 1),
                  name, array, i + 1)

Field(key, type, value) == [key |-> key, type |-> type, value |-> value]

Abs(n) == IF n < 0 THEN -n ELSE n

\* The struct updateUniforms builds for a directional light: the direction
\* is the transformed and normalised -z axis, which a transform of the x
\* axis leaves as it is; color is vec3(1) and intensity 1.
directionalLightUniforms(node) ==
  << Field("direction", FLOAT_VEC3, NumberArray(<< 0, 0, -1 >>)),
     Field("color", FLOAT_VEC3, NumberArray(<< 1, 1, 1 >>)) >>

\* The struct updateUniforms builds for a point light: the translation of
\* the global transform, the color and ten times the average scale.
pointLightUniforms(node) ==
  << Field("position", FLOAT_VEC3, NumberArray(<< node.globalTransform.t, 0, 0 >>)),
     Field("color", FLOAT_VEC3, NumberArray(<< 1, 1, 1 >>)),
     Field("radius", FLOAT,
           IntoNumber(((Abs(node.globalTransform.s) + 1 + 1) * 10) \div 3)) >>

\* Light3DExtension.updateUniforms(uniforms)
updateUniforms(e, t) ==
  _setStruct(
    _setStruct(e, "directionalLights",
               [i \in 1..Len(t.directionalLights) |->
                  directionalLightUniforms(t.nodes[t.directionalLights[i]])], 0),
    "pointLights",
    [i \in 1..Len(t.pointLights) |-> pointLightUniforms(t.nodes[t.pointLights[i]])], 0)

UpdateUniforms ==
  LET e == updateUniforms(WithConsole(maps["E1"]), tree)
  IN /\ maps' = [maps EXCEPT !["E1"] = e.map]
     /\ diag' = e.console
     /\ calls' = << >>
     /\ thrown' = "none"
     /\ lastOp' = Op("updateUniforms", "E1", "", "")
     /\ UNCHANGED << outside, defaultUniformSources, materials, bm, gpu, mutations, tree >>

\* Class of the node number i of a tree with lights: the root is a Node3D.
LightKind(i) ==
  IF i = 1 THEN "Node3D"
  ELSE IF i % 3 = 1 THEN "DirectionalLight3D" ELSE "PointLight3D"

\* A SceneTree3D with its Light3DExtension initialised and new lights that
\* are not in the tree yet.
InitLights ==
  /\ InitObjects
  /\ defaultUniformSources = NoDefaults
  /\ tree = [NoTree EXCEPT !.nodes =
               [i \in 1..MaxNodes |->
                  [NewNode(LightKind(i)) EXCEPT !.tree = (i = 1)]]]

\* Lights are added to the tree, moved and removed, and the environment is
\* updated before drawing.
NextLights ==
  \/ \E this, node \in NodeIds : KeepsForest(this, node) /\ AddChildTo(this, node)
  \/ \E this \in NodeIds : Remove(this)
  \/ \E id \in NodeIds, matrix \in TransformInputs : SetTransform(id, matrix)
  \/ UpdateUniforms

SpecLights == InitLights /\ [][NextLights]_vars

\* ============================================================== claims
\* The GPU state a full rebind of material m against the current environment
\* and instance uniforms leaves behind, started from GPU state g.
FullRebind(g, m) ==
  fullUpdateLoop(maps, materials[m].uniforms, bm.environment, bm.instanceUniforms, 1,
                 [c |-> glUseProgram(Ctx(g, << >>), materials[m].shader),
                  textureUnit |-> 0]).c.gpu

\* Sampler uniforms of a uniform list, in iteration order.
Samplers(uniforms) == SelectSeq(uniforms, LAMBDA u : u.type.type = SAMPLER_2D)

\* The maps the bind machine holds were all handed to it after their last
\* mutation.
BoundMapsClean ==
  /\ bm.environment # NULL
  /\ ~maps[bm.environment].hasChangedSinceLastBound
  /\ bm.instanceUniforms # NULL => ~maps[bm.instanceUniforms].hasChangedSinceLastBound

\* C1: at the return of every setMaterial(m) (environment set, every mutated
\* map handed to the bind machine again), the GPU holds for each uniform of
\* m's program, and has bound to each of m's sampler units, what a full
\* rebind of m would upload.
C1_GpuEqualsFullRebind ==
  (lastOp.op = "setMaterial" /\ thrown = "none" /\ BoundMapsClean) =>
     LET m == lastOp.obj
         ref == FullRebind(gpu, m)
     IN /\ ref.uniforms[materials[m].shader] = gpu.uniforms[materials[m].shader]
        /\ \A k \in 1..Len(Samplers(materials[m].uniforms)) :
              ref.textureUnits[k - 1] = gpu.textureUnits[k - 1]

\* C2: setMaterial(m) directly after a setMaterial(m) that returned issues no
\* GPU call at all.
C2_SecondSetMaterialIssuesNoCalls ==
  [][ ( /\ bm.environment # NULL
        /\ lastOp.op = "setMaterial"
        /\ thrown = "none"
        /\ SetMaterial(lastOp.obj) )
        => calls' = << >> ]_vars

\* The uploads a partial update of material m against instance map x is to
\* make: one per instance-sourced uniform, in iteration order, with the
\* map's value when the map has the name and the stored value otherwise.
InstanceSourced(m) ==
  SelectSeq(materials[m].uniforms, LAMBDA u : u.valueSource = FromInstance)

ExpectedInstanceUploads(m, x) ==
  [i \in 1..Len(InstanceSourced(m)) |->
     LET u == InstanceSourced(m)[i]
         j == MapIndex(maps[x].uniforms, u.name)
         v == IF j # 0 THEN maps[x].uniforms[j].value ELSE u.value
     IN Call("uniformv", u.location.program, u.name, NULL, 0, v.elems)]

\* C3: setMaterial(m) on the current, clean material right after an instance
\* map was (re-)set uploads exactly m's instance-sourced uniforms, nothing
\* else, and leaves the bind machine's fields alone.
C3_PartialUpdateUploadsInstanceUniforms ==
  [][ ( /\ bm.environment # NULL
        /\ lastOp.op = "setInstanceUniforms"
        /\ lastOp.path = "adopt"
        /\ bm.instanceUniforms # NULL
        /\ bm.material # NULL
        /\ ~materials[bm.material].hasChangedSinceLastBound
        /\ SetMaterial(bm.material) )
        => /\ calls' = ExpectedInstanceUploads(bm.material, bm.instanceUniforms)
           /\ thrown' = "none"
           /\ bm' = bm ]_vars

\* Every uniform of material m was uploaded by the calls cs.
AllUniformsUploaded(m, cs) ==
  \A i \in 1..Len(materials[m].uniforms) :
     \E j \in 1..Len(cs) : /\ cs[j].fn \in {"uniformv", "uniform1i"}
                           /\ cs[j].name = materials[m].uniforms[i].name

\* C4: a successful setUniform / setUniformSource sets the dirty flag, and
\* the flag is cleared only by a setMaterial of that material that takes the
\* full-update path and re-uploads every uniform.
C4_DirtyUntilFullUpdate ==
  [][ \A m \in Materials :
        /\ ( /\ lastOp'.op \in {"setUniform", "setUniformSource"}
             /\ lastOp'.obj = m
             /\ lastOp'.path = "set"
             /\ mutations' = mutations + 1 )
             => materials'[m].hasChangedSinceLastBound
        /\ ( /\ materials[m].hasChangedSinceLastBound
             /\ ~materials'[m].hasChangedSinceLastBound )
             => /\ lastOp'.op = "setMaterial"
                /\ lastOp'.obj = m
                /\ lastOp'.path = "full"
                /\ AllUniformsUploaded(m, calls') ]_vars

\* C6: setInstanceUniforms(x) changes no field of the bind machine when x is
\* the current instance uniforms and not dirty (x = null included);
\* otherwise x is adopted, its dirty flag cleared and
\* wereInstanceUniformsChanged set.
C6_SetInstanceUniformsNoopWhenCurrent ==
  [][ \A x \in InstMaps \cup {NULL} :
        SetInstanceUniforms(x) =>
          IF bm.instanceUniforms = x
             /\ (x = NULL \/ ~maps[x].hasChangedSinceLastBound)
          THEN bm' = bm /\ maps' = maps
          ELSE /\ bm'.instanceUniforms = x
               /\ bm'.wereInstanceUniformsChanged
               /\ x # NULL => ~maps'[x].hasChangedSinceLastBound ]_vars

\* An entry of map x with the uniform's name and the uniform's shape.
MatchingEntries(x, u) ==
  { i \in 1..Len(maps[x].uniforms) :
      /\ maps[x].uniforms[i].name = u.name
      /\ maps[x].uniforms[i].type = u.type }

\* C8: an environment-sourced uniform resolves to the bound environment's
\* value when the environment has a same-named entry of the same shape, and
\* to the material's stored value otherwise.
C8_EnvironmentFallback ==
  bm.environment # NULL =>
    \A m \in Materials : \A i \in 1..Len(materials[m].uniforms) :
       LET u == materials[m].uniforms[i]
           r == getBestAvailableUniformValue(maps, u, bm.environment, bm.instanceUniforms)
           match == MatchingEntries(bm.environment, u)
       IN u.valueSource = FromEnvironment =>
            IF match = {} THEN r.value = u.value
            ELSE \E j \in match : r.value = maps[bm.environment].uniforms[j].value

\* C9: setMaterial without an environment is rejected: the error is
\* signalled and the call issues no GPU call and changes nothing.
C9_SetMaterialWithoutEnvironmentRejected ==
  [][ \A m \in Materials :
        (bm.environment = NULL /\ lastOp'.op = "setMaterial" /\ SetMaterial(m))
          => /\ diag' # << >> \/ thrown' # "none"
             /\ calls' = << >>
             /\ bm' = bm
             /\ materials' = materials
             /\ gpu' = gpu ]_vars

\* C10: every numeric value stored in a Material or a UniformMap has exactly
\* type.elemCount elements.
C10_StoredValuesHaveElemCount ==
  /\ \A m \in Materials : \A i \in 1..Len(materials[m].uniforms) :
        LET u == materials[m].uniforms[i]
        IN u.value.kind = "array" => Len(u.value.elems) = u.type.elemCount
  /\ \A x \in EnvMaps \cup InstMaps : \A i \in 1..Len(maps[x].uniforms) :
        LET u == maps[x].uniforms[i]
        IN u.value.kind = "array" => Len(u.value.elems) = u.type.elemCount

\* Number of samplers that precede `name` in the program's introspection
\* order.
SamplerRank(program, name) ==
  Cardinality({ j \in 1..(MapIndex(ActiveUniforms(program), name) - 1) :
                  ActiveUniforms(program)[j].type = SAMPLER_2D })

TextureCalls(cs) ==
  SelectSeq(cs, LAMBDA c : c.fn \in {"activeTexture", "bindTexture", "uniform1i"})

\* The texture handle a full update binds for sampler uniform u.
ResolvedTexture(u) ==
  LET v == getBestAvailableUniformValue(maps, u, bm.environment, bm.instanceUniforms).value
  IN IF v.kind = "Texture" THEN v.texture ELSE NULL

\* C7: in every full update the k-th sampler of the material's uniform map
\* (k from 0) is bound on texture unit k and k is uploaded to it; k is the
\* sampler's rank in the shader's introspection order, whatever setUniform /
\* setUniformSource calls came before.  An update that returns binds every
\* sampler; one cut short by an exception has bound the samplers it reached
\* the same way.
C7_SamplerUnitsFollowIterationOrder ==
  (lastOp.op = "setMaterial" /\ lastOp.path = "full") =>
     LET m == lastOp.obj
         program == materials[m].shader
         us == Samplers(materials[m].uniforms)
         tc == TextureCalls(calls)
         n == Len(tc) \div 3
     IN /\ Len(tc) = 3 * n
        /\ n <= Len(us)
        /\ thrown = "none" => n = Len(us)
        /\ \A k \in 0..(n - 1) :
              /\ tc[3 * k + 1] = Call("activeTexture", NULL, "", NULL, k, << >>)
              /\ tc[3 * k + 2].fn = "bindTexture"
              /\ tc[3 * k + 3] = Call("uniform1i", program, us[k + 1].name, NULL, k, << >>)
              /\ k = SamplerRank(program, us[k + 1].name)
        /\ thrown = "none" =>
              \A k \in 0..(n - 1) :
                 /\ gpu.uniforms[program][us[k + 1].name] = << k >>
                 /\ gpu.textureUnits[k] = ResolvedTexture(us[k + 1])

\* A full update of M1 after setUniform gave its first sampler a texture:
\* that texture sits on unit 0 and the second sampler has unit 1.
C7_Witness ==
  /\ lastOp = Op("setMaterial", "M1", "", "full")
  /\ thrown = "none"
  /\ materials["M1"].uniforms[1].hasBeenWritten
  /\ materials["M1"].uniforms[1].value = TextureValue("T1")
  /\ gpu.textureUnits[0] = "T1"
  /\ gpu.uniforms["S1"]["mask_texture"] = << 1 >>

\* C5: setEnvironment(e) changes nothing when e is the current environment
\* and is not dirty; otherwise e becomes current, its dirty flag is cleared and
\* the current material becomes null, so that a setMaterial that follows is a
\* full update uploading every uniform.  The cached shader, vao, geometry and
\* instance uniforms (and the GPU state) are the same before and after.
C5_SetEnvironment ==
  [][ /\ lastOp'.op = "setEnvironment" =>
           LET e == lastOp'.obj
           IN /\ IF bm.environment = e /\ ~maps[e].hasChangedSinceLastBound
                 THEN bm' = bm /\ maps' = maps
                 ELSE /\ bm'.environment = e
                      /\ ~maps'[e].hasChangedSinceLastBound
                      /\ bm'.material = NULL
              /\ bm'.shader = bm.shader
              /\ bm'.vao = bm.vao
              /\ bm'.geometry = bm.geometry
              /\ bm'.instanceUniforms = bm.instanceUniforms
              /\ calls' = << >>
              /\ gpu' = gpu
              /\ materials' = materials
      /\ ( /\ lastOp.op = "setEnvironment"
           /\ bm.material = NULL
           /\ lastOp'.op = "setMaterial" ) =>
              /\ lastOp'.path = "full"
              /\ bm'.material = lastOp'.obj
              /\ thrown' = "none" => AllUniformsUploaded(lastOp'.obj, calls')
    ]_vars

\* setEnvironment adopted a mutated environment while a material, a shader, a
\* vertex-array object, a geometry and an instance map were current.
C5_Witness ==
  /\ lastOp = Op("setEnvironment", "E1", "", "adopt")
  /\ mutations > 0
  /\ bm.environment = "E1"
  /\ bm.material = NULL
  /\ gpu.program = "S2"
  /\ bm.shader = "S2"
  /\ bm.vao = "V2"
  /\ bm.geometry = "G2"
  /\ bm.instanceUniforms = "I1"

\* C11: no sampler-typed (SAMPLER_2D) uniform of any material has
\* valueSource INSTANCE, in any reachable state.
C11_SamplersNeverInstanceSourced ==
  \A m \in Materials :
    \A i \in 1..Len(materials[m].uniforms) :
       materials[m].uniforms[i].type.type = SAMPLER_2D
          => materials[m].uniforms[i].valueSource # FromInstance

\* C12: in every reachable state the bind machine's cached shader is the
\* program current in the GPU context and its cached vao is the vertex-array
\* object bound there.
C12_CacheEqualsGpuBinding ==
  /\ bm.shader = gpu.program
  /\ bm.vao = gpu.vao

\* The container's names all fit the one-byte length field.
NamesFit == \A i \in 1..Len(btoc.entries) : Len(encodeUTF8(btoc.entries[i].name)) <= 255

BigEndianIs(bytes, start, value) ==
  /\ start + 8 <= Len(bytes)
  /\ \A i \in 0..3 : bytes[start + i + 1] = 0
  /\ \A i \in 4..7 : bytes[start + i + 1] = (value \div Pow2((7 - i) * 8)) % 256

\* C14: after encodeAsBytes the tocStart field (offset 0) and the count field
\* (offset tocStart) are unsigned 64-bit big-endian numbers, and readU64
\* returns the value the eight bytes denote.
C14_FieldsAreBigEndianU64 ==
  lastOp.op = "encodeAsBytes" =>
     LET tocStart == readU64(btoc.file, 0)
     IN /\ BigEndianIs(btoc.file, 0, tocStart)
        /\ BigEndianIs(btoc.file, tocStart, readU64(btoc.file, tocStart))

\* Total length of the first n blobs / of the first n table entries.
RECURSIVE SumBlobs(_, _)
SumBlobs(entries, n) ==
  IF n = 0 THEN 0 ELSE SumBlobs(entries, n - 1) + Len(entries[n].bytes)

RECURSIVE SumTableEntries(_, _)
SumTableEntries(entries, n) ==
  IF n = 0 THEN 0
  ELSE SumTableEntries(entries, n - 1) + 17 + Len(encodeUTF8(entries[n].name))

\* readU64 reads value from the eight bytes at start.
ReadsAs(bytes, start, value) == readU64(bytes, start) = value

\* What it means for the integer field at start to hold value: its eight
\* bytes are the big-endian form of value, or readU64 reads value from them.
FieldIs(reading, bytes, start, value) ==
  IF reading = "big-endian" THEN BigEndianIs(bytes, start, value)
  ELSE ReadsAs(bytes, start, value)

\* The layout of the encoded container under a reading of its integer fields.
Layout(reading) ==
  LET es == btoc.entries
      f == btoc.file
      n == Len(es)
      BlobEnd(i) == 8 + SumBlobs(es, i)
      tocStart == BlobEnd(n)
      Bounds(i) == tocStart + 8 + SumTableEntries(es, i - 1) + 1
                     + Len(encodeUTF8(es[i].name))
  IN /\ FieldIs(reading, f, 0, tocStart)
     /\ FieldIs(reading, f, tocStart, n)
     /\ Len(f) = 16 + SumBlobs(es, n) + SumTableEntries(es, n)
     /\ \A i \in 1..n :
           /\ FieldIs(reading, f, Bounds(i), BlobEnd(i - 1))
           /\ FieldIs(reading, f, Bounds(i) + 8, BlobEnd(i))
           /\ SubSeq(f, BlobEnd(i - 1) + 1, BlobEnd(i)) = es[i].bytes

\* C15: for a container whose names all fit, the encoded tocStart field is 8
\* plus the total blob length, the blobs lie back-to-back from offset 8 in
\* insertion order (first blobStart 8, each blobStart the previous blobEnd,
\* last blobEnd = tocStart), count is the number of entries and the total
\* length is 16 + blobs + sum of (17 + nameLength); the fields are unsigned
\* 64-bit big-endian numbers.
C15_EncodedLayout ==
  (lastOp.op = "encodeAsBytes" /\ NamesFit) => Layout("big-endian")

\* The same layout with every field taken as readU64 reads it.
EncodedLayoutAsReadBack ==
  (lastOp.op = "encodeAsBytes" /\ NamesFit) => Layout("readU64")

\* The entries of the container whose names fit, in order.
FittingEntries ==
  SelectSeq(btoc.entries, LAMBDA e : Len(encodeUTF8(e.name)) <= 255)

\* C16: encoding a container with over-long names does not fail, the encoded
\* count is the number of entries written, and parsing the output gives
\* exactly the entries whose names fit, each with its bytes.
C16_LongNamesSkipped ==
  ( /\ lastOp = Op("from", NULL, "", "whole")
    /\ btoc.input = encodeAsBytes(btoc.entries).result
    /\ btoc.sets = Len(btoc.entries)
    /\ ~NamesFit )
  => /\ thrown = "none"
     /\ readU64(btoc.input, readU64(btoc.input, 0)) = Len(FittingEntries)
     /\ Len(btoc.parsed) = Len(FittingEntries)
     /\ { btoc.parsed[i] : i \in 1..Len(btoc.parsed) }
          = { FittingEntries[i] : i \in 1..Len(FittingEntries) }

\* C17: setBinary / setText on a name that is already present fails and
\* leaves every entry of the container as it was.
C17_NoOverwrite ==
  [][ ( /\ lastOp'.op \in {"setBinary", "setText"}
        /\ lastOp'.path = "present" )
      => /\ thrown' # "none"
         /\ btoc'.entries = btoc.entries ]_vars

\* C18: BtocFile.from on truncated bytes (fewer than 16 bytes, cut before
\* tocStart, or cut inside the entry table) raises an error.
C18_TruncatedInputRejected ==
  ( /\ lastOp.op = "from"
    /\ lastOp.path = "cut" \/ Len(btoc.input) < 16 )
  => thrown # "none"

\* C19: within one BtocMeshReader every mesh, material and texture index is
\* reconstructed at most once: _loadMesh, _loadMaterial and _loadTexture each
\* run at most once per index, and the loadMesh calls for one index, the
\* overlapping ones of sibling branches included, resolve to the same Mesh.
MeshResolved(p) ==
  /\ NodeAt(reader.scene.nodes, p).mesh # UNDEFINED
  /\ reader.nodes[p].mesh # UNDEFINED
C19_LoadedAtMostOncePerIndex ==
  reader.constructed =>
    /\ \A cache \in DOMAIN reader.runs : \A id \in DOMAIN reader.runs[cache] :
          reader.runs[cache][id] <= 1
    /\ \A p, q \in DOMAIN reader.tasks :
          ( /\ MeshResolved(p)
            /\ MeshResolved(q)
            /\ NodeAt(reader.scene.nodes, p).mesh = NodeAt(reader.scene.nodes, q).mesh )
          => reader.nodes[p].mesh = reader.nodes[q].mesh

\* C20: the node tree loadScene resolves to has the parent/child structure of
\* the scene's NodeData tree: each node has the name of its NodeData and as
\* many children, and its i-th child is the conversion of the i-th NodeData
\* child, recursively.
RECURSIVE Converted(_)
Converted(p) ==
  LET data == NodeAt(reader.scene.nodes, p)
      node == reader.nodes[p]
  IN /\ node.name = data.name
     /\ Len(node.children) = Len(data.children)
     /\ \A i \in 1 .. Len(data.children) :
           /\ node.children[i] = p \o << i >>
           /\ reader.nodes[p \o << i >>].parent = << p >>
           /\ Converted(p \o << i >>)
C20_TreeStructurePreserved ==
  (reader.constructed /\ reader.tasks[<< >>].status = "done") => Converted(<< >>)

\* C24: createVao(geometry, shader) returns a handle distinct from every
\* handle returned earlier and leaves the bind machine with that handle as
\* the current vao, shader as the current shader, geometry as the cached
\* geometry and no current material, so that the next setMaterial performs a
\* full update.
C24_CreateVaoBindsAndInvalidates ==
  [][ /\ lastOp'.op = "createVao" =>
           LET vao == lastOp'.path
           IN /\ vao \notin { VaoHandle(k) : k \in 1 .. gpu.vaoCount } \cup { NULL }
              /\ bm'.vao = vao
              /\ gpu'.vao = vao
              /\ bm'.shader = lastOp'.name
              /\ gpu'.program = lastOp'.name
              /\ bm'.geometry = lastOp'.obj
              /\ bm'.material = NULL
      /\ (lastOp.op = "createVao" /\ lastOp'.op = "setMaterial") =>
           /\ lastOp'.path = "full"
           /\ bm'.material = lastOp'.obj
           /\ bm'.shader = ShaderOf(lastOp'.obj)
    ]_vars

\* A second vertex array was created after material M1 had been bound, and
\* M1 was then set again.
C24_Witness ==
  /\ lastOp = Op("setMaterial", "M1", "", "full")
  /\ gpu.vaoCount = 2
  /\ bm.vao = "V2"
  /\ bm.geometry = "G1"

\* C25: setGeometryWithoutVao(g), called with a shader bound, returns with
\* the bind machine's vao null, the GPU's vertex-array binding null and g as
\* the cached geometry.
C25_GeometryBoundWithoutVao ==
  (lastOp.op = "setGeometryWithoutVao" /\ bm.shader # NULL) =>
    /\ bm.vao = NULL
    /\ gpu.vao = NULL
    /\ bm.geometry = lastOp.obj

\* C26: setVao(v) changes nothing and issues no GPU call when v is already
\* the current vao; otherwise it issues exactly one bindVertexArray call for
\* v, makes v current and sets the cached geometry to null; it never changes
\* the environment, instance uniforms, shader or material.
C26_SetVao ==
  [][ lastOp'.op = "setVao" =>
        LET v == lastOp'.obj
        IN /\ bm'.environment = bm.environment
           /\ bm'.instanceUniforms = bm.instanceUniforms
           /\ bm'.wereInstanceUniformsChanged = bm.wereInstanceUniformsChanged
           /\ bm'.shader = bm.shader
           /\ bm'.material = bm.material
           /\ materials' = materials
           /\ maps' = maps
           /\ IF bm.vao = v
              THEN /\ bm' = bm
                   /\ gpu' = gpu
                   /\ calls' = << >>
              ELSE /\ calls' = << Call("bindVertexArrayOES", NULL, "", v, 0, << >>) >>
                   /\ gpu'.vao = v
                   /\ bm'.vao = v
                   /\ bm'.geometry = NULL
    ]_vars

\* setVao(null) left a bind machine that holds a material and its shader
\* without vertex array and without cached geometry, both arrays existing.
C26_Witness ==
  /\ lastOp = Op("setVao", NULL, "", "bind")
  /\ gpu.vaoCount = 2
  /\ bm.material = "M1"
  /\ bm.geometry = NULL
  /\ gpu.vao = NULL

\* C27: hasBeenWritten becomes true only on the uniform a successful
\* setUniform wrote (so that a MATERIAL-sourced uniform warns on a full bind
\* exactly when setUniform never wrote it); setUniformSource alone never
\* makes it true.
C27_OnlySetUniformMarksWritten ==
  [][ \A m \in Materials : \A i \in 1 .. Len(materials[m].uniforms) :
        ( /\ ~materials[m].uniforms[i].hasBeenWritten
          /\ Len(materials'[m].uniforms) >= i
          /\ materials'[m].uniforms[i].hasBeenWritten )
        => lastOp' = Op("setUniform", m, materials[m].uniforms[i].name, "set")
    ]_vars

\* C28: a newly constructed Material has exactly one uniform per active
\* uniform of its shader, in introspection order, each with an all-zero value
\* of length type.elemCount, hasBeenWritten false and the source the registry
\* of default sources holds for its name at construction (MATERIAL when it
\* holds none); entries added to the registry later leave the material alone.
FreshlyConstructed(material, program, registry) ==
  /\ material.shader = program
  /\ Len(material.uniforms) = Len(ActiveUniforms(program))
  /\ \A i \in 1 .. Len(ActiveUniforms(program)) :
        LET active == ActiveUniforms(program)[i]
            uniform == material.uniforms[i]
        IN /\ uniform.name = active.name
           /\ uniform.type.type = active.type
           /\ uniform.value.kind = "array"
           /\ Len(uniform.value.elems) = uniform.type.elemCount
           /\ uniform.type.elemCount = active.size * getElementCountOfGlType(active.type)
           /\ \A k \in 1 .. Len(uniform.value.elems) : uniform.value.elems[k] = 0
           /\ ~uniform.hasBeenWritten
           /\ uniform.valueSource = IF registry[active.name] = UNDEFINED
                                    THEN FromMaterial ELSE registry[active.name]
C28_FreshMaterial ==
  [][ /\ lastOp'.op = "Material" =>
           FreshlyConstructed(materials'[lastOp'.obj], ShaderOf(lastOp'.obj),
                              defaultUniformSources)
      /\ lastOp'.op = "addDefaultUniformSources" => materials' = materials
    ]_vars

\* Material M1 was constructed when the registry held ENVIRONMENT for color
\* and for color_texture.
C28_Witness ==
  /\ lastOp = Op("Material", "M1", "", "")
  /\ defaultUniformSources["color"] = FromEnvironment
  /\ materials["M1"].uniforms[2].valueSource = FromEnvironment
  /\ materials["M1"].uniforms[1].valueSource = FromEnvironment
  /\ Len(materials["M1"].uniforms[2].value.elems) = 2

\* C23: every Geometry that is constructed (by the constructor with any
\* arguments, by Geometry.from or by Geometry.from_indexed) has indexCount
\* defined if and only if it has an indexBuffer, so that Submesh.draw issues
\* an indexed draw exactly for geometries that own an index buffer.
C23_IndexCountIffIndexBuffer ==
  lastOp.op \in {"Geometry", "Geometry.from", "Geometry.from_indexed"} =>
    /\ (graph.geometry.indexCount # UNDEFINED) <=> (graph.geometry.indexBuffer # NULL)
    /\ (drawCall(graph.geometry).fn = "drawElements") <=> (graph.geometry.indexBuffer # NULL)

\* The nodes of the tree in depth-first order, a parent before its children
\* and the children in list order.
RECURSIVE PreOrder(_, _)
RECURSIVE PreOrderOfAll(_, _, _)
PreOrder(nodes, id) == << id >> \o PreOrderOfAll(nodes, nodes[id].children, 1)

PreOrderOfAll(nodes, children, i) ==
  IF i > Len(children) THEN << >>
  ELSE PreOrder(nodes, children[i]) \o PreOrderOfAll(nodes, children, i + 1)

\* The calls one submesh is drawn with.
SubmeshCalls(submesh) ==
  << [call |-> "setMaterial", arg |-> submesh.material],
     [call |-> "setVao", arg |-> submesh.vao],
     [call |-> IF GeometryOf(submesh.geometry).indexBuffer # NULL
               THEN "drawElements" ELSE "drawArrays",
      arg |-> submesh.geometry] >>

RECURSIVE MeshCalls(_, _, _)
MeshCalls(g, submeshes, i) ==
  IF i > Len(submeshes) THEN << >>
  ELSE SubmeshCalls(g.submeshes[submeshes[i]]) \o MeshCalls(g, submeshes, i + 1)

RECURSIVE NodeCalls(_, _, _)
NodeCalls(g, order, i) ==
  IF i > Len(order) THEN << >>
  ELSE LET node == g.nodes[order[i]]
       IN (IF node.kind = "MeshNode3D" /\ node.mesh.present
           THEN << [call |-> "setInstanceUniforms", arg |-> node.uniforms] >>
                \o MeshCalls(g, node.mesh.submeshes, 1)
           ELSE << >>)
          \o NodeCalls(g, order, i + 1)

DrawOrder(g) ==
  << [call |-> "setEnvironment", arg |-> "E1"] >> \o NodeCalls(g, PreOrder(g.nodes, 1), 1)

IsDrawCall(fn) == fn \in {"drawElements", "drawArrays"}

\* C29: the calls of SceneTree3D.draw are, in this order: setEnvironment
\* once; then for every node in depth-first order (parent before children,
\* children in list order) that is a MeshNode3D with a mesh,
\* setInstanceUniforms followed, for every submesh in mesh order, by
\* setMaterial, setVao and exactly one GPU draw call.  A draw that an
\* exception ends has made a prefix of these calls.
C29_DrawOrder ==
  lastOp.op = "draw" =>
    LET order == DrawOrder(graph)
        draws == SelectSeq(order, LAMBDA e : IsDrawCall(e.call))
        issued == SelectSeq(calls, LAMBDA c : IsDrawCall(c.fn))
    IN /\ Len(graph.log) <= Len(order)
       /\ graph.log = SubSeq(order, 1, Len(graph.log))
       /\ thrown = "none" =>
            /\ graph.log = order
            /\ Len(issued) = Len(draws)
            /\ \A i \in 1..Len(draws) : issued[i].fn = draws[i].call

\* A tree with a parent of several children, whose list order differs from
\* the order they were added in, and a mesh of two submeshes has been drawn
\* to the end.
C29_Witness ==
  /\ lastOp.op = "draw"
  /\ thrown = "none"
  /\ \E id \in 1..Len(graph.nodes) :
       /\ Len(graph.nodes[id].children) >= 2
       /\ graph.nodes[id].children[1] > graph.nodes[id].children[2]
  /\ \E id \in 1..Len(graph.nodes) :
       /\ graph.nodes[id].parent > 1
       /\ graph.nodes[id].mesh.present
       /\ Len(graph.nodes[id].mesh.submeshes) = 2
  /\ Len(SelectSeq(graph.log, LAMBDA e : e.call = "setInstanceUniforms")) >= 2
  /\ Len(SelectSeq(graph.log, LAMBDA e : IsDrawCall(e.call))) >= 3

\* C22: with a fallback material configured, constructMaterial returns the
\* Material built by the constructor registered for the record's shaderName
\* when there is one, and otherwise the configured fallback material itself,
\* the same object for every unregistered name; the read does not throw, and
\* the material the reader resolves an index to is what constructMaterial
\* returned for it.
C22_FallbackMaterial ==
  /\ \A k \in 1..Len(reader.returned) :
       LET r == reader.returned[k]
       IN r.fallbackMaterial # NoMaterial =>
            /\ r.registered =>
                 /\ r.value \in 1..Len(reader.heap)
                 /\ r.value # r.fallbackMaterial
                 /\ reader.heap[r.value].class = "Material"
                 /\ reader.heap[r.value].id = r.id
            /\ ~r.registered => r.value = r.fallbackMaterial
            /\ r.fallbackMaterial = reader.fallbackMaterial
  /\ reader.constructed =>
       \A i \in DOMAIN reader.materials :
         reader.materials[i] # UNDEFINED =>
           \E k \in 1..Len(reader.returned) :
             /\ reader.returned[k].id = i
             /\ reader.returned[k].value = reader.materials[i]
             /\ reader.returned[k].shaderName = At(reader.scene.materials, i).shaderName
  /\ lastOp.op \in {"continue", "loadScene"} => thrown = "none"

\* A scene has been loaded in which one material's shader name had a
\* registered constructor and another's had none, with the fallback set.
C22_Witness ==
  /\ reader.constructed
  /\ reader.tasks[<< >>].status = "done"
  /\ reader.fallbackMaterial # NoMaterial
  /\ \E i, j \in DOMAIN reader.materials :
       /\ reader.materials[i] = reader.fallbackMaterial
       /\ reader.materials[j] \notin {UNDEFINED, reader.fallbackMaterial}
       /\ \E k \in 1..Len(reader.returned) :
            reader.returned[k].id = i /\ ~reader.returned[k].registered
                                      /\ reader.returned[k].fallbackMaterial # NoMaterial
       /\ \E k \in 1..Len(reader.returned) :
            reader.returned[k].id = j /\ reader.returned[k].registered
                                      /\ reader.returned[k].fallbackMaterial # NoMaterial

\* The scene description of the finished container: its "root" text parsed.
ContainerScene ==
  parse(decodeUTF8(codec.writer.btoc[MapIndex(codec.writer.btoc, Str_root)].bytes)).v

\* The primitive that was converted when the geometry id was returned.
WrittenAs(id) ==
  PrimitiveOf(codec.written[CHOOSE j \in 1..Len(codec.written) : codec.written[j].id = id]
                .primitive)

\* The bytes an attribute [name, type, data, isNormalized] is stored as.
AttributeBytes(attribute) ==
  IF isSupportedIntType(attribute[2]) THEN Int32Bytes(attribute[3])
  ELSE Float32Bytes(attribute[3])

\* The entry is the index blob or an attribute blob of the geometry returned
\* as l, or the blob of the texture returned as l.
BlobOf(entry, l) ==
  IF l.kind = Str_textures
  THEN entry.name = getTextureBufferName(l.id) /\ entry.bytes = l.bytes
  ELSE /\ l.kind = Str_geometries
       /\ \E j \in 1..Len(codec.written) : codec.written[j].id = l.id
       /\ LET primitive == WrittenAs(l.id)
          IN \/ /\ primitive.hasIndices
                /\ entry.name = getIndicesBufferName(l.id)
                /\ entry.bytes = Uint16Bytes(primitive.indices)
             \/ \E k \in 1..Len(primitive.attributes) :
                  /\ entry.name = getVertexBufferName(l.id, primitive.attributes[k][1])
                  /\ entry.bytes = AttributeBytes(primitive.attributes[k])

\* C30: in the container that finish() has produced, every id returned by
\* addMesh, addMaterial, addTexture and getNextGeometryId is the array index
\* at which the root text holds the record stored by that call (for
\* getNextGeometryId, by the addGeometry that followed); every blob other
\* than "root" is the index blob, an attribute blob or the texture blob of
\* the record at the index in its key, with the bytes written for that
\* record; and every attribute listed in geometry record i has a blob under
\* geometries[i].attributes["name"].  (Geometries are written as
\* _convertGeometry writes them.)
C30_IdsAreArrayPositions ==
  codec.finished =>
    LET scene == ContainerScene
        entries == codec.writer.btoc
    IN /\ MapHas(entries, Str_root)
       /\ \A n \in 1..Len(codec.returned) :
            LET l == codec.returned[n]
            IN /\ l.id >= 0
               /\ l.id < Len(get(scene, l.kind).a)
               /\ elem(get(scene, l.kind), l.id) = l.record
       /\ \A kind \in {Str_meshes, Str_geometries, Str_materials, Str_textures} :
            Len(get(scene, kind).a)
              = Cardinality({n \in 1..Len(codec.returned) : codec.returned[n].kind = kind})
       /\ \A e \in 1..Len(entries) :
            entries[e].name # Str_root =>
              \E n \in 1..Len(codec.returned) : BlobOf(entries[e], codec.returned[n])
       /\ \A i \in 0..(Len(get(scene, Str_geometries).a) - 1) :
            LET attributes == get(elem(get(scene, Str_geometries), i), Str_attributes)
            IN \A k \in 1..Len(attributes.a) :
                 MapHas(entries, getVertexBufferName(i, elem(attributes.a[k], 0).s))

\* A container was finished that holds two geometries, the second one
\* indexed, and a texture.
C30_Witness ==
  /\ codec.finished
  /\ Len(get(codec.writer.data, Str_geometries).a) = 2
  /\ Len(get(codec.writer.data, Str_textures).a) = 1
  /\ MapHas(codec.writer.btoc, getIndicesBufferName(1))
  /\ MapHas(codec.writer.btoc, getTextureBufferName(0))
  /\ \E n \in 1..Len(codec.returned) :
       codec.returned[n].kind = Str_geometries /\ codec.returned[n].id = 1

\* What loadGeometry made of the geometry id is what was written for it.
ReadBack(id, geometry, indexList, data) ==
  LET primitive == WrittenAs(id)
  IN /\ \A k \in 1..Len(primitive.attributes) :
          geometry.vertexCount
            = Quotient(Len(primitive.attributes[k][3]),
                       getElementCountOfGlType(primitive.attributes[k][2]))
     /\ geometry.indexCount = (IF primitive.hasIndices THEN Len(primitive.indices)
                               ELSE UNDEFINED)
     /\ (geometry.indexBuffer # NULL) = primitive.hasIndices
     /\ primitive.hasIndices => indexList = primitive.indices
     /\ Len(data) = Len(primitive.attributes)
     /\ Len(geometry.vertexBuffers) = Len(primitive.attributes)
     /\ \A k \in 1..Len(primitive.attributes) :
          /\ data[k].name = primitive.attributes[k][1]
          /\ data[k].type = primitive.attributes[k][2]
          /\ data[k].data = primitive.attributes[k][3]

C32_MaterialImpliesItsShader ==
  bm.material # NULL => bm.shader = materials[bm.material].shader

\* A material is current after a vertex array was created for the other
\* shader and with a vertex array bound.
C32_Witness ==
  /\ bm.material = "M3"
  /\ bm.shader = "S2"
  /\ bm.vao # NULL
  /\ gpu.vaoCount > 0
  /\ lastOp.op = "setVao"

\* C39: whenever VertexBuffer.createBuffer has bound a new buffer to
\* ELEMENT_ARRAY_BUFFER, no vertex-array object is bound in the GPU context,
\* so the index buffer captured by every vertex-array object created so far
\* is still the index buffer of its geometry.
C39_IndexBufferCreatedWithoutVao ==
  (lastOp.op = "createBuffer" /\ lastOp.name = "ELEMENT_ARRAY_BUFFER") =>
    /\ gpu.vao = NULL
    /\ \A n \in 1..gpu.vaoCount :
         gpu.vaos[VaoHandle(n)].elementArrayBuffer # lastOp.obj

\* The value that binding the material would take for its uniform u, with
\* any environment and any instance uniforms bound, is u's own value.
ResolvesToOwnValue(u) ==
  \A e \in EnvMaps, x \in InstMaps \cup {NULL} :
    getBestAvailableUniformValue(maps, u, e, x).value = u.value

\* C35: right after a Material.setUniform(name, v) that found the uniform,
\* the uniform's valueSource is MATERIAL and its value is v as a uniform
\* value, whatever the source was before; a uniform sourced from MATERIAL
\* resolves to its own value whatever the environment and the instance
\* uniforms hold; and its source stays MATERIAL and its value stays v until
\* setUniformSource or setUniform is called for it.
C35_SetUniformSourcesFromMaterial ==
  /\ [](/\ \A m \in Materials : \A i \in 1..Len(materials[m].uniforms) :
             materials[m].uniforms[i].valueSource = FromMaterial
               => ResolvesToOwnValue(materials[m].uniforms[i])
        /\ (lastOp.op = "setUniform" /\ lastOp.path = "set") =>
             LET u == materials[lastOp.obj].uniforms[
                        MapIndex(materials[lastOp.obj].uniforms, lastOp.name)]
             IN /\ u.valueSource = FromMaterial
                /\ u.hasBeenWritten
                /\ \E in \in SetUniformInputs :
                     /\ in[1] = lastOp.obj
                     /\ in[2] = lastOp.name
                     /\ u.value = UniformValue(in[3]))
  /\ [][\A m \in Materials : \A i \in 1..Len(materials[m].uniforms) :
          materials[m].uniforms[i].valueSource = FromMaterial =>
            \/ /\ materials'[m].uniforms[i].valueSource = FromMaterial
               /\ \/ materials'[m].uniforms[i].value = materials[m].uniforms[i].value
                  \/ /\ lastOp'.op = "setUniform"
                     /\ lastOp'.obj = m
                     /\ lastOp'.name = materials[m].uniforms[i].name
            \/ /\ lastOp'.op = "setUniformSource"
               /\ lastOp'.obj = m
               /\ lastOp'.name = materials[m].uniforms[i].name]_vars

\* The registry made "color" an INSTANCE uniform, the instance uniforms hold
\* another value for it, setUniform gave the material its own value, and
\* binding the material with those instance uniforms uploaded the
\* material's value.
C35_Witness ==
  /\ defaultUniformSources["color"] = FromInstance
  /\ bm.instanceUniforms = "I1"
  /\ bm.material = "M1"
  /\ MapHas(maps["I1"].uniforms, "color")
  /\ maps["I1"].uniforms[MapIndex(maps["I1"].uniforms, "color")].value
       = NumberArray(<< 2, 2 >>)
  /\ LET u == materials["M1"].uniforms[MapIndex(materials["M1"].uniforms, "color")]
     IN /\ u.valueSource = FromMaterial
        /\ u.value = NumberArray(<< 1, 1 >>)
  /\ gpu.uniforms["S1"]["color"] = << 1, 1 >>

\* C33: addChild with the default index appends: the children list of every
\* node holds its children in the order of the addChild calls.  Nodes are
\* numbered in the order they were added, so call order is ascending order.
C33_ChildrenInCallOrder ==
  \A id \in 1..Len(graph.nodes) :
    \A i, j \in 1..Len(graph.nodes[id].children) :
      i < j => graph.nodes[id].children[i] < graph.nodes[id].children[j]

\* Number of positions of a children list that hold the node.
Occurrences(children, node) ==
  Cardinality({ i \in 1..Len(children) : children[i] = node })

\* C34: after any sequence of addChild and removeChild/remove calls, failed
\* ones included, parent links and children lists agree: a node with a
\* parent occurs exactly once in that parent's children, every element of a
\* children list has the list's owner as its parent, and no node occurs in
\* the children lists of two different nodes.
C34_LinksAgree ==
  /\ \A n \in 1..Len(tree.nodes) :
       tree.nodes[n].parent # 0 =>
         Occurrences(tree.nodes[tree.nodes[n].parent].children, n) = 1
  /\ \A p \in 1..Len(tree.nodes) :
       \A i \in 1..Len(tree.nodes[p].children) :
         tree.nodes[tree.nodes[p].children[i]].parent = p
  /\ \A n, p, q \in 1..Len(tree.nodes) :
       p # q => \/ Occurrences(tree.nodes[p].children, n) = 0
                \/ Occurrences(tree.nodes[q].children, n) = 0

\* C31: after any sequence of addChild, removeChild/remove and transform
\* assignments on a tree of Node3D and plain Node objects, the global
\* transform of every Node3D is its local transform multiplied with the
\* global transform of its nearest Node3D ancestor, and its local transform
\* alone when it has no such ancestor.
C31_GlobalTransformsConsistent ==
  \A id \in 1..Len(tree.nodes) :
    instanceofNode3D(tree.nodes[id]) =>
      tree.nodes[id].globalTransform =
        IF tryGetParentNode3D(tree.nodes, id) > 0
        THEN mult(tree.nodes[id].transform,
                  tree.nodes[tryGetParentNode3D(tree.nodes, id)].globalTransform)
        ELSE tree.nodes[id].transform

\* C36: a Texture.from between two setMaterial calls of the same unchanged
\* material does not change what its samplers sample: when setMaterial(m)
\* returns right after a Texture.from, with m the current material and not
\* changed since it was bound, every texture unit assigned to a sampler of m
\* has the texture bound that the sampler resolves to.
C36_TextureCreationKeepsSamplers ==
  [][ \A m \in Materials :
        ( /\ lastOp.op = "Texture.from"
          /\ lastOp' = Op("setMaterial", m, "", lastOp'.path)
          /\ thrown' = "none"
          /\ bm.material = m
          /\ ~materials[m].hasChangedSinceLastBound )
        => \A k \in 1..Len(Samplers(materials[m].uniforms)) :
             (gpu.textureUnits[k - 1] = ResolvedTexture(Samplers(materials[m].uniforms)[k]))' ]_vars

\* The lights of a kind that are in the tree.
LightsInTree(kind) ==
  { id \in 1..Len(tree.nodes) : tree.nodes[id].kind = kind /\ tree.nodes[id].tree }

\* The environment holds the fields of the struct under name[i], with the
\* struct's values.
HoldsStruct(name, i, fields) ==
  \A k \in 1..Len(fields) :
    LET entry == name \o "[" \o ToString(i) \o "]." \o fields[k].key
    IN /\ MapHas(maps["E1"].uniforms, entry)
       /\ maps["E1"].uniforms[MapIndex(maps["E1"].uniforms, entry)].value
            = UniformValue(fields[k].value)

\* The environment holds no entry under name[i].
HoldsNoStruct(name, i, keys) ==
  \A key \in keys : ~MapHas(maps["E1"].uniforms, name \o "[" \o ToString(i) \o "]." \o key)

\* C37: after each updateUniforms the environment holds the entries
\* pointLights[i].position/color/radius and directionalLights[i].direction/
\* color exactly for the i below the number of lights of that kind in the
\* tree, with the values of those lights; entries of removed lights are gone.
C37_EnvironmentHoldsLightsInTree ==
  lastOp.op = "updateUniforms" =>
    /\ { tree.pointLights[i] : i \in 1..Len(tree.pointLights) } = LightsInTree("PointLight3D")
    /\ { tree.directionalLights[i] : i \in 1..Len(tree.directionalLights) }
         = LightsInTree("DirectionalLight3D")
    /\ \A i \in 0..(Len(tree.nodes) - 1) :
         /\ IF i < Cardinality(LightsInTree("PointLight3D"))
            THEN HoldsStruct("pointLights", i,
                             pointLightUniforms(tree.nodes[tree.pointLights[i + 1]]))
            ELSE HoldsNoStruct("pointLights", i, {"position", "color", "radius"})
         /\ IF i < Cardinality(LightsInTree("DirectionalLight3D"))
            THEN HoldsStruct("directionalLights", i,
                             directionalLightUniforms(tree.nodes[tree.directionalLights[i + 1]]))
            ELSE HoldsNoStruct("directionalLights", i, {"direction", "color"})

\* The uniforms of the light arrays.
IsLightUniform(name) ==
  \/ \E i \in 0..(PointLightsMax - 1), key \in {"position", "color", "radius"} :
       name = "pointLights[" \o ToString(i) \o "]." \o key
  \/ \E i \in 0..(DirectionalLightsMax - 1), key \in {"direction", "color"} :
       name = "directionalLights[" \o ToString(i) \o "]." \o key

\* C38: once initLambertian3D has returned, every material it provides, the
\* fallback material and the materials the "lit" constructor builds, has its
\* pointLights[i].* and directionalLights[i].* uniforms sourced from
\* ENVIRONMENT.
C38_LightUniformsFromEnvironment ==
  "lit" \in reader.shaderConstructors =>
    \A m \in {"fallback", "lit"} :
      \A i \in 1..Len(materials[m].uniforms) :
        IsLightUniform(materials[m].uniforms[i].name) =>
          materials[m].uniforms[i].valueSource = FromEnvironment

====
